---- MODULE Spec2Model ----
(***************************************************************************)
(* Verification model of the openshift-coordination-engine.                *)
(*                                                                         *)
(* Spec          one call of MultiLayerOrchestrator.ExecutePlan on a       *)
(*               bounded remediation plan, with a context that may be      *)
(*               cancelled at any moment                                   *)
(*               (internal/coordination/orchestrator.go).                  *)
(* SpecRegistry  the workflow registry of the coordination handler         *)
(*               (TriggerMultiLayerRemediation, ids from the clock).       *)
(* SpecWorkflows the workflow registry of the remediation orchestrator     *)
(*               (TriggerRemediation, ids from a truncated UUID).          *)
(***************************************************************************)
EXTENDS Integers, Sequences, FiniteSets, TLC

(***************************************************************************)
(* Bounds                                                                  *)
(***************************************************************************)
\* longest plan (number of steps) ExecutePlan is run on
MaxSteps == 2
\* largest number of health checkpoints of a plan
MaxCheckpoints == 1
\* accepted triggers per registry
MaxTriggers == 2
\* clock readings on either side of a whole second (see ClockReadings)
MaxTicks == 1
\* concurrent GET /coordination/workflows/{id} requests
MaxReaders == 1
\* resources per trigger request
MaxResources == 2
\* patterns in an ML pattern-analysis response
MaxPatterns == 1
MaxRemediators == 2
MaxRemediations == 1
\* minutes the detector's clock runs
MaxClock == 6
\* Detect...Method calls
MaxDetections == 2

(***************************************************************************)
(* models.Layer and the plan's data                                        *)
(***************************************************************************)
LayerInfrastructure == "infrastructure"
LayerPlatform == "platform"
LayerApplication == "application"
Layers == {LayerInfrastructure, LayerPlatform, LayerApplication}

\* step.WaitTime: 0 = no settle time, 1 = a positive duration
WaitTimes == {0, 1}

\* step.Target as a sequence of characters: "n/p" (namespace/name) and "p"
TargetNsName == <<"n", "/", "p">>
TargetName == <<"p">>
Targets == {TargetNsName, TargetName}

\* models.RemediationStep without its order (the order is the position)
\* Infrastructure and platform steps never read their target, so only
\* application steps range over both target shapes.
\* Each step carries the action type that the planner gives its layer.
ActionTypes ==
    {"monitor_mco", "trigger_operator_reconciliation", "restart_deployment"}

PlannedActionType(layer) ==
    CASE layer = LayerInfrastructure -> "monitor_mco"
      [] layer = LayerPlatform -> "trigger_operator_reconciliation"
      [] layer = LayerApplication -> "restart_deployment"

StepInputs ==
    {s \in [Layer : Layers, ActionType : ActionTypes, Target : Targets,
            WaitTime : WaitTimes, Required : BOOLEAN] :
        /\ s.Layer # LayerApplication => s.Target = TargetName
        /\ s.ActionType = PlannedActionType(s.Layer)}

RemediationStep(s, order) ==
    [Layer |-> s.Layer, Order |-> order, ActionType |-> s.ActionType, Target |-> s.Target,
     WaitTime |-> s.WaitTime, Required |-> s.Required]

\* all sequences over S of length 0..n
RECURSIVE SeqsUpTo(_, _)
SeqsUpTo(S, n) ==
    IF n = 0 THEN {<<>>}
    ELSE LET shorter == SeqsUpTo(S, n - 1)
         IN  shorter \cup {Append(q, x) : q \in {r \in shorter : Len(r) = n - 1}, x \in S}

\* plan.AddStep applied to each input in turn: orders are 1..N
AddSteps(inputs) == [k \in 1..Len(inputs) |-> RemediationStep(inputs[k], k)]

HealthCheckpoints ==
    [Layer : Layers, AfterStep : 1..MaxSteps, Required : BOOLEAN]

NewRemediationPlan(steps, checkpoints) ==
    [Steps |-> steps, Checkpoints |-> checkpoints, Status |-> "pending", CurrentStep |-> 0]

\* index of the first checkpoint with AfterStep = stepOrder, 0 if none (nil)
RECURSIVE FirstCheckpointFrom(_, _, _)
FirstCheckpointFrom(checkpoints, stepOrder, k) ==
    IF k > Len(checkpoints) THEN 0
    ELSE IF checkpoints[k].AfterStep = stepOrder THEN k
    ELSE FirstCheckpointFrom(checkpoints, stepOrder, k + 1)

GetCheckpointAfterStep(p, stepOrder) == FirstCheckpointFrom(p.Checkpoints, stepOrder, 1)

MarkExecuting(p) == [p EXCEPT !.Status = "executing"]
\* mutant of MarkCompleted: the status is left as it was
MarkCompletedNoop(p) == p
MarkCompleted(p) == [p EXCEPT !.Status = "completed"]
\* mutant of MarkFailed: the status is left as it was
MarkFailedNoop(p) == p
MarkFailed(p) == [p EXCEPT !.Status = "failed"]
MarkRolledBack(p) == [p EXCEPT !.Status = "rolled_back"]
AdvanceStep(p) == [p EXCEPT !.CurrentStep = @ + 1]

(***************************************************************************)
(* Pure helpers of the orchestrator                                        *)
(***************************************************************************)
\* splitTarget: split on "/" and drop empty parts
RECURSIVE splitTargetFrom(_, _, _, _)
splitTargetFrom(target, k, current, result) ==
    IF k > Len(target)
    THEN IF current # <<>> THEN Append(result, current) ELSE result
    ELSE IF target[k] = "/"
         THEN IF current # <<>>
              THEN splitTargetFrom(target, k + 1, <<>>, Append(result, current))
              ELSE splitTargetFrom(target, k + 1, current, result)
         ELSE splitTargetFrom(target, k + 1, Append(current, target[k]), result)

splitTarget(target) == splitTargetFrom(target, 1, <<>>, <<>>)

\* parseTarget: TRUE iff the target parses as namespace/name (err = nil)
parseTarget(target) == Len(splitTarget(target)) = 2

\* formatStepsCount: the steps-rolled-back label of the rollback metric
formatStepsCount(count) ==
    IF count <= 5 THEN "1-5"
    ELSE IF count <= 10 THEN "6-10"
    ELSE IF count <= 20 THEN "11-20"
    ELSE "20+"

\* the value of a nil *int (ExecutionResult.FailedStep)
NoStep == -1
NoResult == [Status |-> "none", Reason |-> "", ExecutedSteps |-> 0, FailedStep |-> NoStep, Err |-> "nil"]

VARIABLES
    plan,            \* the *models.RemediationPlan ExecutePlan runs
    ctxDone,         \* ctx.Done() is closed
    pc,              \* position of ExecutePlan
    i,               \* index of the for loop (zero-based)
    executedSteps,   \* the local executedSteps slice
    rb,              \* rollbackSteps: index of the next step to roll back
    trigger,         \* why rollback runs: "step_failed" / "checkpoint_failed"
    result,          \* the returned *ExecutionResult and error
    rollbackLog,     \* orders of the steps handed to executeRollback, in call order
    remediateCalls,  \* orders of the steps for which strategySelector.Remediate ran
    healthCalls,     \* AfterStep of the checkpoints handed to the HealthChecker
    startedSteps,    \* orders of the steps handed to executeStep, in call order
    active,          \* phases in progress: <<"step"|"wait"|"checkpoint", order>>
    stepErrs,        \* orders of the steps whose executeStep returned an error
    checkpointErrs,  \* AfterStep of the checkpoints whose verification failed
    cancelledAt,     \* position of ExecutePlan when the context was cancelled
    PlansActiveGauge,
    RollbackTotal,   \* counter by <<trigger_reason, steps_rolled_back>>
    PlanExecutionTotal, \* counter by status
    now,                    \* time.Now().UnixNano(), counted from the process start
    cwfObjs,                \* the *CoordinationWorkflow objects, in creation order
    coordinationWorkflows,  \* CoordinationHandler.coordinationWorkflows: id -> object
    wfObjs,                 \* the *models.Workflow objects, in creation order
    workflows,              \* Orchestrator.workflows: id -> object
    usedUUIDs,              \* the UUIDs uuid.New() has returned
    lastResponse            \* the last HTTP response written

execVars == <<plan, ctxDone, pc, i, executedSteps, rb, trigger, result, rollbackLog,
              remediateCalls, healthCalls, startedSteps, active, stepErrs,
              checkpointErrs, cancelledAt, PlansActiveGauge, RollbackTotal,
              PlanExecutionTotal>>

regVars == <<now, cwfObjs, coordinationWorkflows, wfObjs, workflows, usedUUIDs, lastResponse>>

VARIABLES
    mu,        \* CoordinationHandler.mu: [writer: thread or NoThread, readers: set of threads]
    ip,        \* per thread: index of its next instruction (0: not started)
    found,     \* per thread: the `exists` result of its last map lookup
    inMap      \* the registry map holds the workflow

lockVars == <<mu, ip, found, inMap>>

VARIABLES
    mainPc     \* position of main: "serving", "shuttingDown", "stopped"

mainVars == <<mainPc>>

VARIABLES
    request,          \* the trigger request: description, resources, and how ML answers
    layeredIssue,     \* the *models.LayeredIssue detection returned
    remediationPlan,  \* the *models.RemediationPlan GeneratePlan returned
    planPc,           \* position of the trigger: "received", "detected", "planned"
    MLLayerDetectionTotal  \* counter vector labelled <<success, ml_available>>

planVars == <<request, layeredIssue, remediationPlan, planPc, MLLayerDetectionTotal>>

VARIABLES
    remediators,         \* StrategySelector.remediators, in registration order
    fallbackRemediator,  \* StrategySelector.fallbackRemediator, NoRemediator for nil
    remediations,        \* the number of StrategySelector.Remediate calls that returned
    lastRemediation      \* the last of them: [Method, Called, Err]

selVars == <<remediators, fallbackRemediator, remediations, lastRemediation>>

VARIABLES
    object,          \* the workload the cluster returns: [Annotations, Labels, Kind], or NotFound
    deploymentInfo,  \* the *models.DeploymentInfo TriggerRemediation goes on with
    classifyPc       \* "issue" before detection, "detected" after

classVars == <<object, deploymentInfo, classifyPc>>

VARIABLES
    cluster,               \* the workloads of the cluster, by kind: an object or NotFound
    clock,                 \* time.Now(), in minutes since the detector was created
    entries,               \* deploymentCache.entries: key -> [info, expiresAt]
    clusterGets,           \* the cache keys of the workloads fetched from the cluster, in order
    DetectionTotal,        \* counter vector labelled <<method, source, kind, cached>>
    DetectionErrorsTotal,  \* counter vector labelled <<error_type, kind>>
    lastDetection,         \* what the last Detect...Method call returned: [Kind, Info, Err]
    detections             \* the number of Detect...Method calls that have returned

cacheVars == <<cluster, clock, entries, clusterGets, DetectionTotal, DetectionErrorsTotal,
               lastDetection, detections>>

VARIABLES
    remediation,    \* what a remediator is asked to do: the issue and the state of its backends
    clientCalls,    \* the calls the remediator made to its clients, in order
    remediationErr, \* what Remediate returned: the words of the error text, <<>> for nil
    workflowStatus  \* the status of the workflow that runs the remediation

remVars == <<remediation, clientCalls, remediationErr, workflowStatus>>

VARIABLES
    watcher,        \* a call of WaitForSync or WaitForPoolStable: its arguments, position and result
    wallTime        \* time.Now() in seconds since the call

watchVars == <<watcher, wallTime>>

VARIABLES
    health,         \* a *HealthResponse
    reported        \* what AddDependency and SetRBACStatus were called with so far

healthVars == <<health, reported>>

vars == <<execVars, regVars, lockVars, mainVars, planVars, selVars, classVars, cacheVars, remVars, watchVars, healthVars>>

\* what each part of the model leaves alone
nonExecVars == <<regVars, lockVars, mainVars, planVars, selVars, classVars, cacheVars, remVars, watchVars, healthVars>>
nonRegVars == <<execVars, lockVars, mainVars, planVars, selVars, classVars, cacheVars, remVars, watchVars, healthVars>>
nonLockVars == <<execVars, regVars, mainVars, planVars, selVars, classVars, cacheVars, remVars, watchVars, healthVars>>
nonMainVars == <<execVars, regVars, lockVars, planVars, selVars, classVars, cacheVars, remVars, watchVars, healthVars>>
nonPlanVars == <<execVars, regVars, lockVars, mainVars, selVars, classVars, cacheVars, remVars, watchVars, healthVars>>
nonSelVars == <<execVars, regVars, lockVars, mainVars, planVars, classVars, cacheVars, remVars, watchVars, healthVars>>
nonClassVars == <<execVars, regVars, lockVars, mainVars, planVars, selVars, cacheVars, remVars, watchVars, healthVars>>
nonCacheVars == <<execVars, regVars, lockVars, mainVars, planVars, selVars, classVars, remVars, watchVars, healthVars>>
nonRemVars == <<execVars, regVars, lockVars, mainVars, planVars, selVars, classVars, cacheVars, watchVars, healthVars>>
nonWatchVars == <<execVars, regVars, lockVars, mainVars, planVars, selVars, classVars, cacheVars, remVars, healthVars>>
nonHealthVars == <<execVars, regVars, lockVars, mainVars, planVars, selVars, classVars, cacheVars, remVars, watchVars>>

Inc(counter, key) ==
    IF key \in DOMAIN counter
    THEN [counter EXCEPT ![key] = @ + 1]
    ELSE [k \in DOMAIN counter \cup {key} |-> IF k = key THEN 1 ELSE counter[k]]

Count(counter, key) == IF key \in DOMAIN counter THEN counter[key] ELSE 0

EmptyCounter == [k \in {} |-> 0]

\* mutant of RecordRollback: every rollback is labelled step_failed
RecordRollbackStepFailed(counter, triggerReason, stepsRolledBack) ==
    Inc(counter, <<"step_failed", formatStepsCount(stepsRolledBack)>>)

RecordRollback(counter, triggerReason, stepsRolledBack) ==
    Inc(counter, <<triggerReason, formatStepsCount(stepsRolledBack)>>)

\* the value of a missing workflow id in a response
NoID == <<>>
NoResponse == [handler |-> "", code |-> 0, id |-> NoID]
EmptyMap == [k \in {} |-> 0]

\* NewCoordinationHandler / NewOrchestrator: empty registries
InitRegistries ==
    /\ now = 0
    /\ cwfObjs = <<>>
    /\ coordinationWorkflows = EmptyMap
    /\ wfObjs = <<>>
    /\ workflows = EmptyMap
    /\ usedUUIDs = {}
    /\ lastResponse = NoResponse

\* ExecutePlan has not been called
InitExecution ==
    /\ ctxDone = FALSE
    /\ pc = "idle"
    /\ i = 0
    /\ executedSteps = <<>>
    /\ rb = -1
    /\ trigger = ""
    /\ result = NoResult
    /\ rollbackLog = <<>>
    /\ remediateCalls = <<>>
    /\ healthCalls = <<>>
    /\ startedSteps = <<>>
    /\ active = {}
    /\ stepErrs = {}
    /\ checkpointErrs = {}
    /\ cancelledAt = "never"
    /\ PlansActiveGauge = 0
    /\ RollbackTotal = EmptyCounter
    /\ PlanExecutionTotal = EmptyCounter

\* the threads of the locking model, none of them started
NoThread == <<"none", 0>>
Threads == {<<"trigger", 0>>, <<"executor", 0>>} \cup {<<"get", n>> : n \in 1..MaxReaders}

InitLocking ==
    /\ mu = [writer |-> NoThread, readers |-> {}]
    /\ ip = [t \in Threads |-> 0]
    /\ found = [t \in Threads |-> FALSE]
    /\ inMap = FALSE

\* main has started the servers and waits for a signal
InitMain == mainPc = "serving"

\* a nil Remediator, and NewStrategySelector: no remediator, no fallback
NoRemediator == <<"", 0>>
InitSelector ==
    /\ remediators = <<>>
    /\ fallbackRemediator = NoRemediator
    /\ remediations = 0
    /\ lastRemediation = [Method |-> "none"]

\* no workload is being classified
NotFound == [Kind |-> "none"]
NoInfo == [Method |-> "none"]
InitClassify ==
    /\ object = NotFound
    /\ deploymentInfo = NoInfo
    /\ classifyPc = "idle"

\* NewDeploymentDetector: an empty cache; the cluster holds no workload
WorkloadKinds == {"Deployment", "StatefulSet", "DaemonSet"}
NoDetection == [Kind |-> "none"]
InitDetector ==
    /\ cluster = [kind \in WorkloadKinds |-> NotFound]
    /\ clock = 0
    /\ entries = <<>>
    /\ clusterGets = <<>>
    /\ DetectionTotal = EmptyCounter
    /\ DetectionErrorsTotal = EmptyCounter
    /\ lastDetection = NoDetection
    /\ detections = 0

\* no remediator has been asked to do anything
\* no watcher is polling
InitWatching ==
    /\ watcher = [Kind |-> "none"]
    /\ wallTime = 0

\* no health response is being built
InitHealth ==
    /\ health = [Status |-> "none"]
    /\ reported = <<>>

InitRemediation ==
    /\ remediation = [Type |-> "none"]
    /\ clientCalls = <<>>
    /\ remediationErr = <<>>
    /\ workflowStatus = "pending"

\* no trigger request is being turned into a plan
NoRequest == [Description |-> <<>>, Resources |-> <<>>]
NoIssue == [AffectedLayers |-> <<>>]
NoPlan == [Steps |-> <<>>]
InitPlanning ==
    /\ request = NoRequest
    /\ layeredIssue = NoIssue
    /\ remediationPlan = NoPlan
    /\ planPc = "idle"
    /\ MLLayerDetectionTotal = EmptyCounter

Init ==
    /\ InitLocking
    /\ InitMain
    /\ InitHealth
    /\ InitWatching
    /\ InitRemediation
    /\ InitSelector
    /\ InitClassify
    /\ InitDetector
    /\ InitPlanning
    /\ \E inputs \in SeqsUpTo(StepInputs, MaxSteps) :
       \E checkpoints \in SeqsUpTo(HealthCheckpoints, MaxCheckpoints) :
            plan = NewRemediationPlan(AddSteps(inputs), checkpoints)
    /\ InitExecution
    /\ InitRegistries

\* the caller's context is cancelled (before the call or while it runs)
Cancel ==
    /\ ~ctxDone
    /\ pc # "done"
    /\ ctxDone' = TRUE
    /\ cancelledAt' = pc
    /\ UNCHANGED <<plan, pc, i, executedSteps, rb, trigger, result, rollbackLog,
                   remediateCalls, healthCalls, startedSteps, active, stepErrs,
                   checkpointErrs, PlansActiveGauge, RollbackTotal, PlanExecutionTotal>>
    /\ UNCHANGED nonExecVars

\* ExecutePlan entry: RecordPlanExecutionStart, MarkExecuting, executedSteps = []
ExecutePlanStart ==
    /\ pc = "idle"
    /\ PlansActiveGauge' = PlansActiveGauge + 1
    /\ plan' = MarkExecuting(plan)
    /\ executedSteps' = <<>>
    /\ i' = 0
    /\ pc' = "loop"
    /\ UNCHANGED <<ctxDone, rb, trigger, result, rollbackLog, remediateCalls,
                   healthCalls, startedSteps, active, stepErrs, checkpointErrs,
                   cancelledAt, RollbackTotal, PlanExecutionTotal>>
    /\ UNCHANGED nonExecVars

\* mutant of RecordPlanExecutionEnd: the cancelled return forgets the gauge
RecordPlanExecutionEndNotCancelled(status) ==
    /\ PlansActiveGauge' = IF status = "cancelled" THEN PlansActiveGauge ELSE PlansActiveGauge - 1
    /\ PlanExecutionTotal' = Inc(PlanExecutionTotal, status)
\* RecordPlanExecutionEnd: the gauge goes down, the counter of the status up
RecordPlanExecutionEnd(status) ==
    /\ PlansActiveGauge' = PlansActiveGauge - 1
    /\ PlanExecutionTotal' = Inc(PlanExecutionTotal, status)

\* mutant of callsRemediator: reconciliation of an operator is triggered
\* through a remediator
callsRemediatorToReconcile(step) ==
    \/ step.Layer = LayerApplication /\ parseTarget(step.Target)
    \/ step.ActionType = "trigger_operator_reconciliation"
\* executeApplicationStep reaches strategySelector.Remediate iff the target parses
callsRemediator(step) == step.Layer = LayerApplication /\ parseTarget(step.Target)

\* executeInfrastructureStep: every branch of the switch over the action type
\* logs and returns nil
executeInfrastructureStep(step) ==
    IF step.ActionType \in {"monitor_mco", "monitor_machineconfig", "monitor_mcp"}
    THEN {"nil"}
    ELSE {"nil"}

\* executePlatformStep: every branch of the switch over the action type logs
\* and returns nil
executePlatformStep(step) ==
    CASE step.ActionType = "trigger_operator_reconciliation" -> {"nil"}
      [] step.ActionType = "monitor_clusteroperator" -> {"nil"}
      [] OTHER -> {"nil"}

\* executeApplicationStep: fails on a target that does not parse and
\* otherwise returns what the remediator returns
executeApplicationStep(step) ==
    IF parseTarget(step.Target) THEN {"nil", "err"} ELSE {"err"}

\* executeStep: the errors it can return ("nil" = success)
executeStep(step) ==
    CASE step.Layer = LayerInfrastructure -> executeInfrastructureStep(step)
      [] step.Layer = LayerPlatform -> executePlatformStep(step)
      [] step.Layer = LayerApplication -> executeApplicationStep(step)
      [] OTHER -> {"err"}

\* verifyCheckpoint: what the HealthChecker of the layer can return
verifyCheckpoint(checkpoint) ==
    IF checkpoint.Layer \in Layers THEN {"nil", "err"} ELSE {"err"}

\* rollbackApplicationStep: every branch of the switch over the action type
\* logs and returns nil; no remediator is asked to revert anything
rollbackApplicationStep(step) ==
    IF ~parseTarget(step.Target) THEN "nil"
    ELSE IF step.ActionType \in {"restart_deployment", "restart_statefulset", "restart_pod"}
    THEN "nil"
    ELSE "nil"

\* executeRollback: platform and infrastructure rollbacks are left to the
\* operators and the MCO; every branch returns nil
executeRollback(step) ==
    CASE step.Layer = LayerApplication -> rollbackApplicationStep(step)
      [] step.Layer = LayerPlatform -> "nil"
      [] step.Layer = LayerInfrastructure -> "nil"
      [] OTHER -> "nil"

\* mutant of rollbackStepAt: the executed steps are visited first to last
rollbackStepAtForward(steps, k) == steps[Len(steps) - k]

\* rollbackSteps: step := steps[i], with i counting down from len(steps)-1
rollbackStepAt(steps, k) == steps[k + 1]

\* mutant of continuesOnFailure: every failure is treated as a required one
continuesOnFailureNever(required) == FALSE

\* if !step.Required / if !checkpoint.Required: log a warning and continue
continuesOnFailure(required) == ~required

CurrentStepOf == plan.Steps[i + 1]

\* for i, step := range plan.Steps: the next step is handed to executeStep
StepBegin ==
    /\ pc = "loop"
    /\ i < Len(plan.Steps)
    /\ startedSteps' = Append(startedSteps, CurrentStepOf.Order)
    /\ active' = active \cup {<<"step", CurrentStepOf.Order>>}
    /\ pc' = "exec"
    /\ UNCHANGED <<plan, ctxDone, i, executedSteps, rb, trigger, result, rollbackLog,
                   remediateCalls, healthCalls, stepErrs, checkpointErrs, cancelledAt,
                   PlansActiveGauge, RollbackTotal, PlanExecutionTotal>>
    /\ UNCHANGED nonExecVars

\* the range loop is exhausted: MarkCompleted, return success
PlanComplete ==
    /\ pc = "loop"
    /\ i >= Len(plan.Steps)
    /\ plan' = MarkCompleted(plan)
    /\ RecordPlanExecutionEnd("success")
    /\ result' = [Status |-> "success", Reason |-> "", ExecutedSteps |-> Len(executedSteps),
                  FailedStep |-> NoStep, Err |-> "nil"]
    /\ pc' = "done"
    /\ UNCHANGED <<ctxDone, i, executedSteps, rb, trigger, rollbackLog, remediateCalls,
                   healthCalls, startedSteps, active, stepErrs, checkpointErrs,
                   cancelledAt, RollbackTotal>>
    /\ UNCHANGED nonExecVars

\* mutant of AfterStepPc: the loop goes on without waiting for the settle time
AfterStepPcNoWait(step) == "checkpoint"

\* where a successful step goes next: into its settle wait, or to the checkpoint lookup
AfterStepPc(step) == IF step.WaitTime > 0 THEN "wait" ELSE "checkpoint"

AfterStepActive(step) ==
    IF step.WaitTime > 0
    THEN (active \ {<<"step", step.Order>>}) \cup {<<"wait", step.Order>>}
    ELSE active \ {<<"step", step.Order>>}

\* executeStep returns: continue on a non-required failure, roll back on a
\* required failure, else record the step and advance
StepEnd ==
    /\ pc = "exec"
    /\ \E err \in executeStep(CurrentStepOf) :
        /\ remediateCalls' = IF callsRemediator(CurrentStepOf)
                             THEN Append(remediateCalls, CurrentStepOf.Order)
                             ELSE remediateCalls
        /\ IF err # "nil"
           THEN /\ stepErrs' = stepErrs \cup {CurrentStepOf.Order}
                /\ active' = active \ {<<"step", CurrentStepOf.Order>>}
                /\ IF continuesOnFailure(CurrentStepOf.Required)
                   THEN /\ i' = i + 1
                        /\ pc' = "loop"
                        /\ UNCHANGED <<plan, rb, trigger>>
                   ELSE /\ plan' = MarkFailed(plan)
                        /\ rb' = Len(executedSteps) - 1
                        /\ trigger' = "step_failed"
                        /\ pc' = "rollback"
                        /\ UNCHANGED i
                /\ UNCHANGED executedSteps
           ELSE /\ executedSteps' = Append(executedSteps, CurrentStepOf)
                /\ plan' = AdvanceStep(plan)
                /\ pc' = AfterStepPc(CurrentStepOf)
                /\ active' = AfterStepActive(CurrentStepOf)
                /\ UNCHANGED <<i, rb, trigger, stepErrs>>
    /\ UNCHANGED <<ctxDone, result, rollbackLog, healthCalls, startedSteps,
                   checkpointErrs, cancelledAt, PlansActiveGauge, RollbackTotal,
                   PlanExecutionTotal>>
    /\ UNCHANGED nonExecVars

\* select: case <-time.After(step.WaitTime)
WaitElapsed ==
    /\ pc = "wait"
    /\ ~ctxDone
    /\ active' = active \ {<<"wait", CurrentStepOf.Order>>}
    /\ pc' = "checkpoint"
    /\ UNCHANGED <<plan, ctxDone, i, executedSteps, rb, trigger, result, rollbackLog,
                   remediateCalls, healthCalls, startedSteps, stepErrs, checkpointErrs,
                   cancelledAt, PlansActiveGauge, RollbackTotal, PlanExecutionTotal>>
    /\ UNCHANGED nonExecVars

\* select: case <-ctx.Done(): return failed / "context cancelled"
WaitCancelled ==
    /\ pc = "wait"
    /\ ctxDone
    /\ active' = active \ {<<"wait", CurrentStepOf.Order>>}
    /\ RecordPlanExecutionEnd("cancelled")
    /\ result' = [Status |-> "failed", Reason |-> "context cancelled",
                  ExecutedSteps |-> Len(executedSteps), FailedStep |-> NoStep, Err |-> "err"]
    /\ pc' = "done"
    /\ UNCHANGED <<plan, ctxDone, i, executedSteps, rb, trigger, rollbackLog,
                   remediateCalls, healthCalls, startedSteps, stepErrs, checkpointErrs,
                   cancelledAt, RollbackTotal>>
    /\ UNCHANGED nonExecVars

\* plan.GetCheckpointAfterStep(step.Order) == nil: next iteration
NoCheckpoint ==
    /\ pc = "checkpoint"
    /\ GetCheckpointAfterStep(plan, CurrentStepOf.Order) = 0
    /\ i' = i + 1
    /\ pc' = "loop"
    /\ UNCHANGED <<plan, ctxDone, executedSteps, rb, trigger, result, rollbackLog,
                   remediateCalls, healthCalls, startedSteps, active, stepErrs,
                   checkpointErrs, cancelledAt, PlansActiveGauge, RollbackTotal,
                   PlanExecutionTotal>>
    /\ UNCHANGED nonExecVars

\* a checkpoint is anchored after the step: verifyCheckpoint is called
CheckpointBegin ==
    /\ pc = "checkpoint"
    /\ GetCheckpointAfterStep(plan, CurrentStepOf.Order) # 0
    /\ healthCalls' = Append(healthCalls,
            plan.Checkpoints[GetCheckpointAfterStep(plan, CurrentStepOf.Order)].AfterStep)
    /\ active' = active \cup {<<"checkpoint", CurrentStepOf.Order>>}
    /\ pc' = "verify"
    /\ UNCHANGED <<plan, ctxDone, i, executedSteps, rb, trigger, result, rollbackLog,
                   remediateCalls, startedSteps, stepErrs, checkpointErrs, cancelledAt,
                   PlansActiveGauge, RollbackTotal, PlanExecutionTotal>>
    /\ UNCHANGED nonExecVars

\* verifyCheckpoint returns: continue on success or on a non-required failure,
\* roll back on a required failure
CheckpointEnd ==
    /\ pc = "verify"
    /\ LET checkpoint == plan.Checkpoints[GetCheckpointAfterStep(plan, CurrentStepOf.Order)]
       IN  \E err \in verifyCheckpoint(checkpoint) :
            /\ active' = active \ {<<"checkpoint", CurrentStepOf.Order>>}
            /\ IF err # "nil"
               THEN /\ checkpointErrs' = checkpointErrs \cup {checkpoint.AfterStep}
                    /\ IF continuesOnFailure(checkpoint.Required)
                       THEN /\ i' = i + 1
                            /\ pc' = "loop"
                            /\ UNCHANGED <<plan, rb, trigger>>
                       ELSE /\ plan' = MarkFailed(plan)
                            /\ rb' = Len(executedSteps) - 1
                            /\ trigger' = "checkpoint_failed"
                            /\ pc' = "rollback"
                            /\ UNCHANGED i
               ELSE /\ i' = i + 1
                    /\ pc' = "loop"
                    /\ UNCHANGED <<plan, rb, trigger, checkpointErrs>>
    /\ UNCHANGED <<ctxDone, executedSteps, result, rollbackLog, remediateCalls,
                   healthCalls, startedSteps, stepErrs, cancelledAt, PlansActiveGauge,
                   RollbackTotal, PlanExecutionTotal>>
    /\ UNCHANGED nonExecVars

\* rollbackSteps, one iteration: executeRollback(steps[rb]); its error is only logged
RollbackStep ==
    /\ pc = "rollback"
    /\ rb >= 0
    /\ LET err == executeRollback(rollbackStepAt(executedSteps, rb))
       IN  /\ rollbackLog' = Append(rollbackLog, rollbackStepAt(executedSteps, rb).Order)
           /\ rb' = rb - 1
    /\ UNCHANGED <<plan, ctxDone, pc, i, executedSteps, trigger, result, remediateCalls,
                   healthCalls, startedSteps, active, stepErrs, checkpointErrs,
                   cancelledAt, PlansActiveGauge, RollbackTotal, PlanExecutionTotal>>
    /\ UNCHANGED nonExecVars

\* rollbackSteps returned nil: record the rollback and return the failure
RollbackDone ==
    /\ pc = "rollback"
    /\ rb < 0
    /\ RollbackTotal' = RecordRollback(RollbackTotal, trigger, Len(executedSteps))
    /\ RecordPlanExecutionEnd("failed")
    /\ result' = [Status |-> "failed",
                  Reason |-> IF trigger = "step_failed" THEN "step error" ELSE "checkpoint failed",
                  ExecutedSteps |-> Len(executedSteps), FailedStep |-> i, Err |-> "err"]
    /\ pc' = "done"
    /\ UNCHANGED <<plan, ctxDone, i, executedSteps, rb, trigger, rollbackLog,
                   remediateCalls, healthCalls, startedSteps, active, stepErrs,
                   checkpointErrs, cancelledAt>>
    /\ UNCHANGED nonExecVars

Next ==
    \/ Cancel
    \/ ExecutePlanStart
    \/ StepBegin
    \/ StepEnd
    \/ WaitElapsed
    \/ WaitCancelled
    \/ NoCheckpoint
    \/ CheckpointBegin
    \/ CheckpointEnd
    \/ RollbackStep
    \/ RollbackDone
    \/ PlanComplete

Spec == Init /\ [][Next]_vars

(***************************************************************************)
(* Properties of ExecutePlan                                               *)
(***************************************************************************)
Reverse(seq) == [k \in 1..Len(seq) |-> seq[Len(seq) + 1 - k]]

IsPrefix(a, b) == Len(a) <= Len(b) /\ SubSeq(b, 1, Len(a)) = a

Range(seq) == {seq[k] : k \in 1..Len(seq)}

\* orders of the steps whose executeStep has returned nil, in execution order
Succeeded ==
    SelectSeq(startedSteps, LAMBDA o : o \notin stepErrs /\ <<"step", o>> \notin active)

\* orders of the required steps that failed
RequiredFailed == {o \in stepErrs : plan.Steps[o].Required}

\* AfterStep of the required checkpoints whose verification failed
RequiredCheckpointFailed ==
    {a \in checkpointErrs : plan.Checkpoints[GetCheckpointAfterStep(plan, a)].Required}

RollbackInvoked == pc = "rollback" \/ (pc = "done" /\ trigger # "")

LastStarted == startedSteps[Len(startedSteps)]

\* C1: whenever rollback is invoked, executeRollback is called for exactly the
\* steps that succeeded before the failure, in reverse order of execution, and
\* the loop runs to its end: while it runs the calls made are a prefix of the
\* reversed list, when ExecutePlan returns they are the whole reversed list;
\* without a rollback no rollback action is ever executed.
C1_RollbackExactReverse ==
    /\ RollbackInvoked => IsPrefix(rollbackLog, Reverse(Succeeded))
    /\ (pc = "done" /\ trigger # "") => rollbackLog = Reverse(Succeeded)
    /\ ~RollbackInvoked => rollbackLog = <<>>

C1_Witness ==
    /\ pc = "done"
    /\ trigger # ""
    /\ rollbackLog = <<2, 1>>

\* C2: once a required step has failed the plan is failed, rollback runs over
\* the steps executed before it, the failed step is the last step ever started,
\* and ExecutePlan returns failed with executed_steps = number of succeeded
\* steps and failed_step = zero-based index of the failed step.
C2_RequiredStepFailure ==
    \A o \in RequiredFailed :
        /\ RollbackInvoked
        /\ trigger = "step_failed"
        /\ plan.Status = "failed"
        /\ LastStarted = o
        /\ IsPrefix(rollbackLog, Reverse(Succeeded))
        /\ pc = "done" =>
            /\ result.Status = "failed"
            /\ result.Err # "nil"
            /\ result.ExecutedSteps = Len(Succeeded)
            /\ result.FailedStep = o - 1
            /\ rollbackLog = Reverse(Succeeded)

C2_Witness ==
    /\ pc = "done"
    /\ RequiredFailed = {2}
    /\ result.ExecutedSteps = 1
    /\ result.FailedStep = 1

\* C3 (as claimed): every step the loop has moved past, and whose order has a
\* checkpoint anchored after it, has had that checkpoint handed to the
\* HealthChecker before any later step starts or the plan completes.
C3_CheckpointAfterEveryAnchorStep ==
    (pc \in {"loop", "exec", "wait", "checkpoint", "verify"} \/ plan.Status = "completed") =>
        \A k \in 1..i :
            GetCheckpointAfterStep(plan, plan.Steps[k].Order) # 0
                => plan.Steps[k].Order \in Range(healthCalls)

\* total of the rollback metric over the steps-rolled-back labels
RECURSIVE SumOver(_, _)
SumOver(counter, keys) ==
    IF keys = {} THEN 0
    ELSE LET key == CHOOSE x \in keys : TRUE
         IN  counter[key] + SumOver(counter, keys \ {key})

RollbackCount(reason) == SumOver(RollbackTotal, {key \in DOMAIN RollbackTotal : key[1] = reason})

\* C4: once a required checkpoint has failed the plan is failed, rollback runs
\* over every executed step including the one the checkpoint follows, no later
\* step is started, and ExecutePlan returns failed having incremented the
\* rollback metric exactly once, with trigger reason checkpoint_failed.
C4_RequiredCheckpointFailure ==
    \A a \in RequiredCheckpointFailed :
        /\ RollbackInvoked
        /\ plan.Status = "failed"
        /\ LastStarted = a
        /\ IsPrefix(rollbackLog, Reverse(Succeeded))
        /\ pc = "done" =>
            /\ result.Status = "failed"
            /\ result.Err # "nil"
            /\ rollbackLog = Reverse(Succeeded)
            /\ a \in Range(rollbackLog)
            /\ RollbackCount("checkpoint_failed") = 1
            /\ RollbackCount("step_failed") = 0

C4_Witness ==
    /\ pc = "done"
    /\ RequiredCheckpointFailed = {2}
    /\ rollbackLog = <<2, 1>>
    /\ Count(RollbackTotal, <<"checkpoint_failed", "1-5">>) = 1

\* C5 (as claimed): when the context was cancelled before ExecutePlan was
\* called on a plan with at least one step, no remediator call is made and the
\* call returns failed with reason "context cancelled".
C5_CancelledBeforeCall ==
    (cancelledAt = "idle" /\ Len(plan.Steps) > 0) =>
        /\ remediateCalls = <<>>
        /\ pc = "done" => (result.Status = "failed" /\ result.Reason = "context cancelled")

\* C6 (as claimed): once the context has been cancelled during the execution,
\* no further step is started.
C6_NoStepAfterCancel ==
    [][(ctxDone /\ cancelledAt # "idle") => startedSteps' = startedSteps]_vars

\* C7: a failure of a non-required step alone never fails the plan and never
\* triggers rollback; the failed step is not among the executed steps and the
\* loop has moved on to the next step.
C7_OptionalStepFailure ==
    /\ \A o \in stepErrs \ RequiredFailed :
            /\ i >= o
            /\ \A k \in 1..Len(executedSteps) : executedSteps[k].Order # o
    /\ (stepErrs # {} /\ RequiredFailed = {} /\ RequiredCheckpointFailed = {}) =>
            /\ plan.Status \notin {"failed", "rolled_back"}
            /\ ~RollbackInvoked
            /\ rollbackLog = <<>>
            /\ RollbackTotal = EmptyCounter
            /\ pc = "done" => result.FailedStep = NoStep

C7_Witness ==
    /\ pc = "done"
    /\ stepErrs = {1}
    /\ startedSteps = <<1, 2>>
    /\ result.Status = "success"
    /\ result.ExecutedSteps = 1

\* every step of the plan ran and returned nil, every checkpoint of the plan
\* was verified and none failed
AllStepsSucceeded ==
    /\ Len(Succeeded) = Len(plan.Steps)
    /\ stepErrs = {}

AllCheckpointsPassed ==
    /\ checkpointErrs = {}
    /\ \A k \in 1..Len(plan.Checkpoints) : plan.Checkpoints[k].AfterStep \in Range(healthCalls)

ReturnedSuccess ==
    /\ plan.Status = "completed"
    /\ result.Status = "success"
    /\ result.ExecutedSteps = Len(plan.Steps)
    /\ result.Err = "nil"

\* C8 (as claimed): if every step succeeded and every checkpoint passed,
\* ExecutePlan returns success with the plan completed.
C8_SuccessOriginal ==
    (pc = "done" /\ AllStepsSucceeded /\ AllCheckpointsPassed) => ReturnedSuccess

\* C8 (amended): if every step succeeded, no checkpoint failed and no wait_time
\* was interrupted by the cancellation of the context, ExecutePlan returns
\* success with executed_steps = |steps|, no error, and the plan completed.
C8_SuccessUnlessCancelled ==
    (pc = "done" /\ AllStepsSucceeded /\ checkpointErrs = {}
        /\ Count(PlanExecutionTotal, "cancelled") = 0) => ReturnedSuccess

C8_Witness ==
    /\ pc = "done"
    /\ Len(plan.Steps) = 2
    /\ AllStepsSucceeded
    /\ healthCalls # <<>>
    /\ ReturnedSuccess

\* C9: steps are started one at a time in ascending order; while a step, its
\* wait or its checkpoint is in progress nothing else of the plan is, and what
\* is in progress belongs to the step started last.
C9_Sequential ==
    /\ \A k \in 1..Len(startedSteps) : startedSteps[k] = plan.Steps[k].Order
    /\ \A k \in 1..Len(startedSteps) - 1 : startedSteps[k] < startedSteps[k + 1]
    /\ Cardinality(active) <= 1
    /\ \A a \in active : a[2] = LastStarted
    /\ pc = "exec" => active = {<<"step", LastStarted>>}

C9_Witness ==
    /\ pc = "exec"
    /\ startedSteps = <<1, 2>>
    /\ Range(healthCalls) = {1}
    /\ plan.Steps[1].WaitTime > 0
(***************************************************************************)
(* The workflow registries                                                 *)
(***************************************************************************)
\* generateCoordinationWorkflowID: time.Now().UnixNano() % 1000000000
IdModulus == 1000000000

\* the clock readings of the model: the first nanoseconds after the process
\* start and the same nanoseconds one second later
ClockReadings == (0..MaxTicks) \cup {IdModulus + k : k \in 0..MaxTicks}

\* a UUID as <<its first 8 characters, the remaining characters>>
UUIDs == {"aaaaaaaa", "bbbbbbbb"} \X {"-1", "-2"}

\* generateCoordinationWorkflowID: fmt.Sprintf("cwf-%d", time.Now().UnixNano()%1000000000)
generateCoordinationWorkflowID(t) == <<"cwf-", t % IdModulus>>

\* generateWorkflowID: "wf-" + uuid.New().String()[:8]
generateWorkflowID(uuid) == <<"wf-", uuid[1]>>

\* TriggerMultiLayerRemediationRequest: incident id, description, number of resources
CoordinationRequests ==
    [IncidentID : {"", "inc-1"}, Description : {"", "d"}, Resources : {0, 1}]

\* TriggerRemediationRequest: the required fields of the handler
RemediationRequests ==
    [IncidentID : {"", "inc-1"}, Namespace : {"", "ns"}, ResourceName : {"p"},
     ResourceKind : {"Pod"}, IssueType : {"", "CrashLoopBackOff"}]

\* what the background execution (ExecutePlan, Remediate) returns as its error:
\* nil or an error, named by its Error() text
ExecutionErrors == {"nil", "step 1 failed"}

\* the if err != nil { Status = failed } else { Status = completed } of both executors
\* (mutants: the error is ignored; the status is put back to pending)
finalStatusAlwaysCompleted(err) == "completed"
finalStatusPending(err) == "pending"
finalStatus(err) == IF err # "nil" THEN "failed" ELSE "completed"

\* workflow.ErrorMessage = err.Error(), only in the err != nil branch
finalErrorMessage(old, err) == IF err # "nil" THEN err ELSE old

\* the map after m[id] = object
MapSet(m, id, obj) == [k \in DOMAIN m \cup {id} |-> IF k = id THEN obj ELSE m[k]]

Respond(handler, code, id) == lastResponse' = [handler |-> handler, code |-> code, id |-> id]

\* the clock advances
Tick ==
    /\ \E t \in ClockReadings :
        /\ t > now
        /\ now' = t
    /\ UNCHANGED <<cwfObjs, coordinationWorkflows, wfObjs, workflows, usedUUIDs, lastResponse>>
    /\ UNCHANGED nonRegVars

\* POST /api/v1/coordination/trigger: validate, create the workflow, store it
\* under its id, spawn executeCoordinationWorkflow, answer 202
TriggerMultiLayerRemediation ==
    /\ Len(cwfObjs) < MaxTriggers
    /\ \E req \in CoordinationRequests :
        IF req.IncidentID = "" \/ req.Description = "" \/ req.Resources = 0
        THEN /\ Respond("coordination/trigger", 400, NoID)
             /\ UNCHANGED <<cwfObjs, coordinationWorkflows>>
        ELSE LET workflow == [ID |-> generateCoordinationWorkflowID(now),
                              IncidentID |-> req.IncidentID,
                              Status |-> "pending", ErrorMessage |-> "",
                              err |-> "none", pc |-> "spawned"]
             IN  /\ cwfObjs' = Append(cwfObjs, workflow)
                 /\ coordinationWorkflows' =
                        MapSet(coordinationWorkflows, workflow.ID, Len(cwfObjs) + 1)
                 /\ Respond("coordination/trigger", 202, workflow.ID)
    /\ UNCHANGED <<now, wfObjs, workflows, usedUUIDs>>
    /\ UNCHANGED nonRegVars

\* executeCoordinationWorkflow, first part: updateWorkflowStatus(workflow, "executing")
CoordinationExecutionBegin ==
    /\ \E k \in 1..Len(cwfObjs) :
        /\ cwfObjs[k].pc = "spawned"
        /\ cwfObjs' = [cwfObjs EXCEPT ![k].Status = "executing", ![k].pc = "executing"]
    /\ UNCHANGED <<now, coordinationWorkflows, wfObjs, workflows, usedUUIDs, lastResponse>>
    /\ UNCHANGED nonRegVars

\* executeCoordinationWorkflow, second part: ExecutePlan has returned; set the
\* final status and saveWorkflow (the map entry of the id is set to this object)
CoordinationExecutionEnd ==
    /\ \E k \in 1..Len(cwfObjs) :
        /\ cwfObjs[k].pc = "executing"
        /\ \E err \in ExecutionErrors :
            cwfObjs' = [cwfObjs EXCEPT
                            ![k].Status = finalStatus(err),
                            ![k].ErrorMessage = finalErrorMessage(@, err),
                            ![k].err = err,
                            ![k].pc = "returned"]
        /\ coordinationWorkflows' = MapSet(coordinationWorkflows, cwfObjs[k].ID, k)
    /\ UNCHANGED <<now, wfObjs, workflows, usedUUIDs, lastResponse>>
    /\ UNCHANGED nonRegVars

\* GET /api/v1/coordination/workflows/{id}
GetCoordinationWorkflow ==
    /\ \E t \in ClockReadings :
        LET id == generateCoordinationWorkflowID(t)
        IN  IF id \in DOMAIN coordinationWorkflows
            THEN Respond("coordination/workflows", 200, id)
            ELSE Respond("coordination/workflows", 404, NoID)
    /\ UNCHANGED <<now, cwfObjs, coordinationWorkflows, wfObjs, workflows, usedUUIDs>>
    /\ UNCHANGED nonRegVars

\* POST /api/v1/remediation/trigger and Orchestrator.TriggerRemediation:
\* validate, createWorkflow with a generated id, store it, spawn executeWorkflow
TriggerRemediation ==
    /\ Len(wfObjs) < MaxTriggers
    /\ \E req \in RemediationRequests :
        IF \/ req.IncidentID = ""
           \/ req.Namespace = ""
           \/ req.ResourceName = "" \/ req.ResourceKind = ""
           \/ req.IssueType = ""
        THEN /\ Respond("remediation/trigger", 400, NoID)
             /\ UNCHANGED <<wfObjs, workflows, usedUUIDs>>
        ELSE \E uuid \in UUIDs \ usedUUIDs :
                LET workflow == [ID |-> generateWorkflowID(uuid),
                                 IncidentID |-> req.IncidentID,
                                 Status |-> "pending", ErrorMessage |-> "",
                                 err |-> "none", pc |-> "spawned"]
                IN  /\ usedUUIDs' = usedUUIDs \cup {uuid}
                    /\ wfObjs' = Append(wfObjs, workflow)
                    /\ workflows' = MapSet(workflows, workflow.ID, Len(wfObjs) + 1)
                    /\ Respond("remediation/trigger", 202, workflow.ID)
    /\ UNCHANGED <<now, cwfObjs, coordinationWorkflows>>
    /\ UNCHANGED nonRegVars

\* executeWorkflow, first part: status in_progress, saveWorkflow
WorkflowExecutionBegin ==
    /\ \E k \in 1..Len(wfObjs) :
        /\ wfObjs[k].pc = "spawned"
        /\ wfObjs' = [wfObjs EXCEPT ![k].Status = "in_progress", ![k].pc = "executing"]
        /\ workflows' = MapSet(workflows, wfObjs[k].ID, k)
    /\ UNCHANGED <<now, cwfObjs, coordinationWorkflows, usedUUIDs, lastResponse>>
    /\ UNCHANGED nonRegVars

\* executeWorkflow, second part: Remediate has returned; final status, saveWorkflow
WorkflowExecutionEnd ==
    /\ \E k \in 1..Len(wfObjs) :
        /\ wfObjs[k].pc = "executing"
        /\ \E err \in ExecutionErrors :
            wfObjs' = [wfObjs EXCEPT
                            ![k].Status = finalStatus(err),
                            ![k].ErrorMessage = finalErrorMessage(@, err),
                            ![k].err = err,
                            ![k].pc = "returned"]
        /\ workflows' = MapSet(workflows, wfObjs[k].ID, k)
    /\ UNCHANGED <<now, cwfObjs, coordinationWorkflows, usedUUIDs, lastResponse>>
    /\ UNCHANGED nonRegVars

\* GET /api/v1/workflows/{id}
GetWorkflow ==
    /\ \E uuid \in UUIDs :
        LET id == generateWorkflowID(uuid)
        IN  IF id \in DOMAIN workflows
            THEN Respond("workflows", 200, id)
            ELSE Respond("workflows", 404, NoID)
    /\ UNCHANGED <<now, cwfObjs, coordinationWorkflows, wfObjs, workflows, usedUUIDs>>
    /\ UNCHANGED nonRegVars

InitRegistry ==
    /\ plan = NewRemediationPlan(<<>>, <<>>)
    /\ InitLocking
    /\ InitMain
    /\ InitHealth
    /\ InitWatching
    /\ InitRemediation
    /\ InitSelector
    /\ InitClassify
    /\ InitDetector
    /\ InitPlanning
    /\ InitExecution
    /\ InitRegistries

NextRegistry ==
    \/ Tick
    \/ TriggerMultiLayerRemediation
    \/ CoordinationExecutionBegin
    \/ CoordinationExecutionEnd
    \/ GetCoordinationWorkflow

SpecRegistry == InitRegistry /\ [][NextRegistry]_vars

NextWorkflows ==
    \/ TriggerRemediation
    \/ WorkflowExecutionBegin
    \/ WorkflowExecutionEnd
    \/ GetWorkflow

SpecWorkflows == InitRegistry /\ [][NextWorkflows]_vars

\* C10 (as claimed): any two accepted triggers of a registry have produced
\* workflows with distinct ids, so every workflow created is the one its
\* registry holds under its id and at most one execution runs per id.
C10_DistinctWorkflowIds ==
    /\ \A a, b \in 1..Len(cwfObjs) : a # b => cwfObjs[a].ID # cwfObjs[b].ID
    /\ \A a, b \in 1..Len(wfObjs) : a # b => wfObjs[a].ID # wfObjs[b].ID

\* C11 (as claimed): once an id is in a registry it stays there and keeps
\* naming the workflow object that was stored under it: no step removes the
\* entry or makes the id name the workflow of another trigger.
C11_RegistryKeepsWorkflow ==
    [][/\ \A id \in DOMAIN coordinationWorkflows :
            /\ id \in DOMAIN coordinationWorkflows'
            /\ coordinationWorkflows'[id] = coordinationWorkflows[id]
       /\ \A id \in DOMAIN workflows :
            /\ id \in DOMAIN workflows'
            /\ workflows'[id] = workflows[id]]_vars

(***************************************************************************)
(* Workflow life cycle: both registries with their background executions.  *)
(* Each spawned goroutine is scheduled, and its execution returns.         *)
(***************************************************************************)
NextLifecycle ==
    \/ Tick
    \/ TriggerMultiLayerRemediation
    \/ CoordinationExecutionBegin
    \/ CoordinationExecutionEnd
    \/ TriggerRemediation
    \/ WorkflowExecutionBegin
    \/ WorkflowExecutionEnd

SpecLifecycle ==
    /\ InitRegistry
    /\ [][NextLifecycle]_vars
    /\ WF_vars(CoordinationExecutionBegin)
    /\ WF_vars(CoordinationExecutionEnd)
    /\ WF_vars(WorkflowExecutionBegin)
    /\ WF_vars(WorkflowExecutionEnd)

TerminalStatuses == {"completed", "failed"}

\* the workflow's execution has returned and the workflow shows its outcome
ReachedTerminal(w) ==
    /\ w.pc = "returned"
    /\ w.err = "nil" => w.Status = "completed" /\ w.ErrorMessage = ""
    /\ w.err # "nil" => w.Status = "failed" /\ w.ErrorMessage = w.err

\* C12: every workflow created by an accepted trigger leaves pending and ends
\* completed when its execution returned nil, and failed with error_message
\* equal to the error's text otherwise.
C12_ReachesTerminalStatus ==
    /\ \A k \in 1..MaxTriggers :
            (Len(cwfObjs) >= k) ~> (Len(cwfObjs) >= k /\ ReachedTerminal(cwfObjs[k]))
    /\ \A k \in 1..MaxTriggers :
            (Len(wfObjs) >= k) ~> (Len(wfObjs) >= k /\ ReachedTerminal(wfObjs[k]))
    /\ [](\A k \in 1..Len(cwfObjs) : cwfObjs[k].pc = "returned" => ReachedTerminal(cwfObjs[k]))
    /\ [](\A k \in 1..Len(wfObjs) : wfObjs[k].pc = "returned" => ReachedTerminal(wfObjs[k]))

\* a coordination workflow has ended failed and a remediation workflow completed
C12_Witness ==
    /\ \E k \in 1..Len(cwfObjs) :
            /\ cwfObjs[k].Status = "failed"
            /\ cwfObjs[k].ErrorMessage = "step 1 failed"
    /\ \E k \in 1..Len(wfObjs) :
            /\ wfObjs[k].Status = "completed"
            /\ wfObjs[k].ErrorMessage = ""

\* one change of a workflow's Status field, running being "executing" for a
\* coordination workflow and "in_progress" for a remediation workflow
StatusStep(old, new, running) ==
    \/ new = old
    \/ old = "pending" /\ new = running
    \/ old = running /\ new \in TerminalStatuses

\* C13: the status of a workflow only moves pending -> executing/in_progress
\* -> completed or failed; it never skips the running state, never moves
\* back, and a completed or failed workflow keeps its status.
C13_StatusTransitions ==
    [][/\ \A k \in 1..Len(cwfObjs) :
            StatusStep(cwfObjs[k].Status, cwfObjs'[k].Status, "executing")
       /\ \A k \in 1..Len(wfObjs) :
            StatusStep(wfObjs[k].Status, wfObjs'[k].Status, "in_progress")]_vars

\* both kinds of workflow have gone through all their status changes while
\* another workflow of the same registry is still running
C13_Witness ==
    /\ Len(cwfObjs) = 2 /\ Len(wfObjs) = 2
    /\ cwfObjs[1].Status = "completed" /\ cwfObjs[2].Status = "executing"
    /\ wfObjs[2].Status = "failed" /\ wfObjs[1].Status = "in_progress"

(***************************************************************************)
(* Locking of the coordination registry: one trigger request, the          *)
(* background execution it spawns and concurrent GET requests, each as the *)
(* sequence of lock operations and memory accesses its code performs.      *)
(***************************************************************************)
Ins(op, loc) == [op |-> op, loc |-> loc, to |-> 0]
Jump(op, loc, to) == [op |-> op, loc |-> loc, to |-> to]

\* TriggerMultiLayerRemediation from the store of the new workflow on
TriggerMultiLayerRemediationProgram ==
    << Ins("Lock", "mu"),            \* ch.mu.Lock()
       Ins("Write", "map"),          \* ch.coordinationWorkflows[workflow.ID] = workflow
       Ins("Unlock", "mu"),          \* ch.mu.Unlock()
       Ins("go", "executor"),        \* go ch.executeCoordinationWorkflow(workflow)
       Ins("Read", "Status") >>      \* Status: workflow.Status in the response

\* executeCoordinationWorkflow with updateWorkflowStatus and saveWorkflow inlined
executeCoordinationWorkflowProgram ==
    << Ins("Lock", "mu"),            \* updateWorkflowStatus: ch.mu.Lock()
       Ins("Write", "Status"),       \* workflow.Status = status
       Ins("Unlock", "mu"),          \* defer ch.mu.Unlock()
       Ins("Write", "StartedAt"),    \* workflow.StartedAt = &startTime
       Ins("Call", "ExecutePlan"),   \* ch.orchestrator.ExecutePlan(ctx, plan)
       Ins("Write", "CompletedAt"),  \* workflow.CompletedAt = &completedTime
       Ins("Write", "ExecutionResult"),
       Jump("IfNot", "err", 12),     \* if err != nil {
       Ins("Write", "Status"),       \*   workflow.Status = "failed"
       Ins("Write", "ErrorMessage"), \*   workflow.ErrorMessage = err.Error()
       Jump("Goto", "", 13),         \* } else {
       Ins("Write", "Status"),       \*   workflow.Status = "completed" }
       Ins("Lock", "mu"),            \* saveWorkflow: ch.mu.Lock()
       Ins("Write", "map"),          \* ch.coordinationWorkflows[workflow.ID] = workflow
       Ins("Unlock", "mu"),          \* defer ch.mu.Unlock()
       Ins("Read", "Status") >>      \* "status": workflow.Status in the log entry

\* GetCoordinationWorkflow; json.Encode reads every field of the workflow
GetCoordinationWorkflowProgram ==
    << Ins("RLock", "mu"),           \* ch.mu.RLock()
       Ins("Read", "map"),           \* workflow, exists := ch.coordinationWorkflows[id]
       Ins("RUnlock", "mu"),         \* ch.mu.RUnlock()
       Jump("IfNot", "exists", 10),  \* if !exists { 404; return }
       Ins("Read", "Status"),        \* json.NewEncoder(w).Encode(workflow)
       Ins("Read", "ErrorMessage"),
       Ins("Read", "StartedAt"),
       Ins("Read", "CompletedAt"),
       Ins("Read", "ExecutionResult") >>

Program(t) ==
    CASE t[1] = "trigger" -> TriggerMultiLayerRemediationProgram
      [] t[1] = "executor" -> executeCoordinationWorkflowProgram
      [] OTHER -> GetCoordinationWorkflowProgram

Running(t) == ip[t] \in 1..Len(Program(t))
Current(t) == Program(t)[ip[t]]
At(t, op) == Running(t) /\ Current(t).op = op
Advance(t) == ip' = [ip EXCEPT ![t] = @ + 1]

\* an HTTP request arrives: the trigger once, a GET whenever its thread is free
Request(t) ==
    /\ t[1] # "executor"
    /\ IF t[1] = "trigger" THEN ip[t] = 0 ELSE ~Running(t)
    /\ ip' = [ip EXCEPT ![t] = 1]
    /\ found' = [found EXCEPT ![t] = FALSE]
    /\ UNCHANGED <<mu, inMap>>
    /\ UNCHANGED nonLockVars

\* sync.RWMutex
Lock(t) ==
    /\ At(t, "Lock")
    /\ mu.writer = NoThread /\ mu.readers = {}
    /\ mu' = [mu EXCEPT !.writer = t]
    /\ Advance(t)
    /\ UNCHANGED <<found, inMap>>
    /\ UNCHANGED nonLockVars

Unlock(t) ==
    /\ At(t, "Unlock")
    /\ mu' = [mu EXCEPT !.writer = NoThread]
    /\ Advance(t)
    /\ UNCHANGED <<found, inMap>>
    /\ UNCHANGED nonLockVars

RLock(t) ==
    /\ At(t, "RLock")
    /\ mu.writer = NoThread
    /\ mu' = [mu EXCEPT !.readers = @ \cup {t}]
    /\ Advance(t)
    /\ UNCHANGED <<found, inMap>>
    /\ UNCHANGED nonLockVars

RUnlock(t) ==
    /\ At(t, "RUnlock")
    /\ mu' = [mu EXCEPT !.readers = @ \ {t}]
    /\ Advance(t)
    /\ UNCHANGED <<found, inMap>>
    /\ UNCHANGED nonLockVars

\* the go statement: the executor thread starts
Go(t) ==
    /\ At(t, "go")
    /\ ip' = [ip EXCEPT ![t] = @ + 1, ![<<"executor", 0>>] = 1]
    /\ UNCHANGED <<mu, found, inMap>>
    /\ UNCHANGED nonLockVars

\* a call that touches no registry state
Call(t) ==
    /\ At(t, "Call")
    /\ Advance(t)
    /\ UNCHANGED <<mu, found, inMap>>
    /\ UNCHANGED nonLockVars

\* one read or write of the registry map or of a field of the workflow
Access(t) ==
    /\ At(t, "Read") \/ At(t, "Write")
    /\ inMap' = (inMap \/ (Current(t).op = "Write" /\ Current(t).loc = "map"))
    /\ found' = IF Current(t).op = "Read" /\ Current(t).loc = "map"
                THEN [found EXCEPT ![t] = inMap]
                ELSE found
    /\ Advance(t)
    /\ UNCHANGED mu
    /\ UNCHANGED nonLockVars

\* if / else: `exists` is what the lookup found, err is whatever ExecutePlan returned
Branch(t) ==
    /\ \/ /\ At(t, "IfNot")
          /\ \E cond \in (IF Current(t).loc = "exists" THEN {found[t]} ELSE BOOLEAN) :
                ip' = [ip EXCEPT ![t] = IF cond THEN @ + 1 ELSE Current(t).to]
       \/ /\ At(t, "Goto")
          /\ ip' = [ip EXCEPT ![t] = Current(t).to]
    /\ UNCHANGED <<mu, found, inMap>>
    /\ UNCHANGED nonLockVars

NextLocking ==
    \E t \in Threads :
        \/ Request(t)
        \/ Lock(t)
        \/ Unlock(t)
        \/ RLock(t)
        \/ RUnlock(t)
        \/ Go(t)
        \/ Call(t)
        \/ Access(t)
        \/ Branch(t)

InitLockingSpec ==
    /\ plan = NewRemediationPlan(<<>>, <<>>)
    /\ InitExecution
    /\ InitRegistries
    /\ InitLocking
    /\ InitMain
    /\ InitHealth
    /\ InitWatching
    /\ InitRemediation
    /\ InitSelector
    /\ InitClassify
    /\ InitDetector
    /\ InitPlanning

SpecLocking == InitLockingSpec /\ [][NextLocking]_vars

\* the read/write lock is held in a way that covers the access
HoldsLockFor(t, op) ==
    \/ mu.writer = t
    \/ op = "Read" /\ t \in mu.readers

\* the accesses thread t is about to perform
PendingAccess(t) ==
    IF At(t, "Read") \/ At(t, "Write") THEN {Current(t)} ELSE {}

\* two threads are about to access the same location, one of them writing,
\* and nothing orders the two accesses
DataRace(t, u) ==
    /\ t # u
    /\ \E a \in PendingAccess(t) : \E b \in PendingAccess(u) :
        /\ a.loc = b.loc
        /\ a.op = "Write" \/ b.op = "Write"
        /\ ~(HoldsLockFor(t, a.op) /\ HoldsLockFor(u, b.op))

\* C14 (as claimed): no two threads ever access the registry map or a field
\* of a stored workflow at the same time, one of them writing, unless both
\* hold the registry's read/write lock.
C14_NoUnsynchronisedAccess ==
    \A t, u \in Threads : ~DataRace(t, u)

(***************************************************************************)
(* Shutdown: main waits for SIGINT/SIGTERM and shuts the HTTP servers down *)
(* while a background execution started by executeCoordinationWorkflow     *)
(* runs ExecutePlan with ctx := context.Background().                      *)
(***************************************************************************)
\* <-quit: the signal arrives
Signal ==
    /\ mainPc = "serving"
    /\ mainPc' = "shuttingDown"
    /\ UNCHANGED nonMainVars

\* server.Shutdown(ctx) and metricsServer.Shutdown(ctx), ctx being a fresh
\* 30-second context of main; then main returns
ShutdownServers ==
    /\ mainPc = "shuttingDown"
    /\ mainPc' = "stopped"
    /\ UNCHANGED nonMainVars

\* context.Background() is never cancelled, so Cancel is not a step here
NextShutdown ==
    \/ Signal
    \/ ShutdownServers
    \/ ExecutePlanStart
    \/ StepBegin
    \/ StepEnd
    \/ WaitElapsed
    \/ NoCheckpoint
    \/ CheckpointBegin
    \/ CheckpointEnd
    \/ RollbackStep
    \/ RollbackDone
    \/ PlanComplete

SpecShutdown == Init /\ [][NextShutdown]_vars

\* C15 (as claimed): once the signal has arrived, the context of a running
\* execution is cancelled by the time the servers are shut down, and the
\* execution starts no further step.
C15_ExecutionsObserveShutdown ==
    [][/\ mainPc # "serving" => startedSteps' = startedSteps
       /\ (mainPc' = "stopped" /\ pc' \notin {"idle", "done"}) => ctxDone']_vars

(***************************************************************************)
(* Layer detection and plan generation: the request of a trigger is turned *)
(* into a LayeredIssue (DetectLayers, DetectLayersWithML) and the issue    *)
(* into a RemediationPlan (GeneratePlan).  Strings that the code searches  *)
(* or concatenates are sequences of characters.                            *)
(***************************************************************************)
Upper == <<"A", "B", "C", "D", "E", "F", "G", "H", "I", "J", "K", "L", "M", "N", "O", "P", "Q", "R", "S", "T", "U", "V", "W", "X", "Y", "Z">>
Lower == <<"a", "b", "c", "d", "e", "f", "g", "h", "i", "j", "k", "l", "m", "n", "o", "p", "q", "r", "s", "t", "u", "v", "w", "x", "y", "z">>

\* strings.ToLower
ToLowerChar(c) == IF \E k \in 1..Len(Upper) : Upper[k] = c
                  THEN Lower[CHOOSE k \in 1..Len(Upper) : Upper[k] = c]
                  ELSE c
ToLower(s) == [k \in 1..Len(s) |-> ToLowerChar(s[k])]

\* strings.Contains
Contains(s, substr) ==
    \E k \in 0..(Len(s) - Len(substr)) : SubSeq(s, k + 1, k + Len(substr)) = substr

KindNode == <<"N", "o", "d", "e">>
KindMachineConfig == <<"M", "a", "c", "h", "i", "n", "e", "C", "o", "n", "f", "i", "g">>
KindMachineConfigPool == <<"M", "a", "c", "h", "i", "n", "e", "C", "o", "n", "f", "i", "g", "P", "o", "o", "l">>
KindClusterOperator == <<"C", "l", "u", "s", "t", "e", "r", "O", "p", "e", "r", "a", "t", "o", "r">>
KindNetworkPolicy == <<"N", "e", "t", "w", "o", "r", "k", "P", "o", "l", "i", "c", "y">>
KindPod == <<"P", "o", "d">>
KindDeployment == <<"D", "e", "p", "l", "o", "y", "m", "e", "n", "t">>
KindStatefulSet == <<"S", "t", "a", "t", "e", "f", "u", "l", "S", "e", "t">>
KindDaemonSet == <<"D", "a", "e", "m", "o", "n", "S", "e", "t">>
KindReplicaSet == <<"R", "e", "p", "l", "i", "c", "a", "S", "e", "t">>
\* a custom operator kind, and a kind no layer knows
KindEtcdOperator == <<"E", "t", "c", "d", "O", "p", "e", "r", "a", "t", "o", "r">>
KindConfigMap == <<"C", "o", "n", "f", "i", "g", "M", "a", "p">>
OperatorWord == <<"O", "p", "e", "r", "a", "t", "o", "r">>

\* the resource kinds a request may carry
Kinds == {KindNode, KindMachineConfig, KindClusterOperator, KindEtcdOperator,
          KindNetworkPolicy, KindPod, KindStatefulSet, KindDaemonSet, KindConfigMap}

\* models.Resource; the k-th resource of a request is named "r<k>" in namespace "n"
Digits == <<"1", "2", "3", "4", "5", "6", "7", "8", "9">>
Resource(kind, k) == [Kind |-> kind, Name |-> <<"r", Digits[k]>>, Namespace |-> <<"n">>]

\* the resource lists of a request: every caller passes at least one resource
ResourceLists ==
    {[k \in 1..Len(kinds) |-> Resource(kinds[k], k)] :
        kinds \in SeqsUpTo(Kinds, MaxResources) \ {<<>>}}

\* the issue descriptions of the model
Descriptions ==
    {<<"x">>,
     <<"N", "o", "d", "e", " ", "N", "o", "t", "R", "e", "a", "d", "y">>,
     <<"o", "p", "e", "r", "a", "t", "o", "r", " ", "d", "e", "g", "r", "a", "d", "e", "d">>,
     <<"p", "o", "d", " ", "c", "r", "a", "s", "h", "l", "o", "o", "p">>,
     <<"h", "o", "s", "t">>,
     <<"n", "o", "d", "e", " ", "a", "n", "d", " ", "p", "o", "d">>}

InfrastructureKeywords ==
    <<<<"n", "o", "d", "e">>,
       <<"m", "a", "c", "h", "i", "n", "e", "c", "o", "n", "f", "i", "g">>,
       <<"m", "c", "o">>,
       <<"k", "u", "b", "e", "l", "e", "t">>,
       <<"m", "e", "m", "o", "r", "y", " ", "p", "r", "e", "s", "s", "u", "r", "e">>,
       <<"d", "i", "s", "k", " ", "p", "r", "e", "s", "s", "u", "r", "e">>,
       <<"p", "i", "d", " ", "p", "r", "e", "s", "s", "u", "r", "e">>,
       <<"o", "s">>,
       <<"k", "e", "r", "n", "e", "l">>,
       <<"s", "y", "s", "t", "e", "m", "d">>,
       <<"c", "o", "r", "e", "o", "s">>,
       <<"n", "o", "t", "r", "e", "a", "d", "y">>,
       <<"n", "e", "t", "w", "o", "r", "k", "u", "n", "a", "v", "a", "i", "l", "a", "b", "l", "e">>>>
PlatformKeywords ==
    <<<<"o", "p", "e", "r", "a", "t", "o", "r">>,
       <<"s", "d", "n">>,
       <<"n", "e", "t", "w", "o", "r", "k", "i", "n", "g">>,
       <<"o", "v", "n">>,
       <<"s", "t", "o", "r", "a", "g", "e">>,
       <<"c", "s", "i">>,
       <<"i", "n", "g", "r", "e", "s", "s">>,
       <<"r", "o", "u", "t", "e", "r">>,
       <<"a", "p", "i", " ", "s", "e", "r", "v", "e", "r">>,
       <<"c", "o", "n", "t", "r", "o", "l", "l", "e", "r", " ", "m", "a", "n", "a", "g", "e", "r">>,
       <<"s", "c", "h", "e", "d", "u", "l", "e", "r">>,
       <<"c", "l", "u", "s", "t", "e", "r", "o", "p", "e", "r", "a", "t", "o", "r">>,
       <<"d", "e", "g", "r", "a", "d", "e", "d">>,
       <<"p", "r", "o", "g", "r", "e", "s", "s", "i", "n", "g">>>>
ApplicationKeywords ==
    <<<<"p", "o", "d">>,
       <<"d", "e", "p", "l", "o", "y", "m", "e", "n", "t">>,
       <<"r", "e", "p", "l", "i", "c", "a", "s", "e", "t">>,
       <<"s", "t", "a", "t", "e", "f", "u", "l", "s", "e", "t">>,
       <<"c", "r", "a", "s", "h", "l", "o", "o", "p">>,
       <<"i", "m", "a", "g", "e", "p", "u", "l", "l">>,
       <<"c", "o", "n", "t", "a", "i", "n", "e", "r">>,
       <<"o", "o", "m">>,
       <<"a", "p", "p", "l", "i", "c", "a", "t", "i", "o", "n">>,
       <<"s", "e", "r", "v", "i", "c", "e">>,
       <<"e", "n", "d", "p", "o", "i", "n", "t">>,
       <<"c", "r", "a", "s", "h", "l", "o", "o", "p", "b", "a", "c", "k", "o", "f", "f">>,
       <<"i", "m", "a", "g", "e", "p", "u", "l", "l", "b", "a", "c", "k", "o", "f", "f">>>>

containsKeyword(description, keywords) ==
    \E k \in 1..Len(keywords) : Contains(ToLower(description), keywords[k])

\* hasInfrastructureIssues / hasPlatformIssues / hasApplicationIssues
hasInfrastructureIssues(description, resources) ==
    \/ containsKeyword(description, InfrastructureKeywords)
    \/ \E k \in 1..Len(resources) :
        resources[k].Kind \in {KindNode, KindMachineConfig, KindMachineConfigPool}

hasPlatformIssues(description, resources) ==
    \/ containsKeyword(description, PlatformKeywords)
    \/ \E k \in 1..Len(resources) :
        \/ resources[k].Kind = KindClusterOperator
        \/ Contains(resources[k].Kind, OperatorWord)
        \/ resources[k].Kind = KindNetworkPolicy

hasApplicationIssues(description, resources) ==
    \/ containsKeyword(description, ApplicationKeywords)
    \/ \E k \in 1..Len(resources) :
        resources[k].Kind \in {KindPod, KindDeployment, KindStatefulSet,
                               KindDaemonSet, KindReplicaSet}

determineInitialLayer(description, resources) ==
    IF hasInfrastructureIssues(description, resources) THEN LayerInfrastructure
    ELSE IF hasPlatformIssues(description, resources) THEN LayerPlatform
    ELSE LayerApplication

\* the value of a nil *MLLayerPredictions
NoPredictions == [Confidence |-> -1]

\* models.NewLayeredIssue
NewLayeredIssue(description, rootCauseLayer) ==
    [Description |-> description,
     RootCauseLayer |-> rootCauseLayer,
     AffectedLayers |-> <<rootCauseLayer>>,
     ImpactedResources |-> [l \in Layers |-> <<>>],
     MLPredictions |-> NoPredictions,
     LayerConfidence |-> [l \in Layers |-> 0],
     DetectionMethod |-> "keyword"]

\* LayeredIssue.AddAffectedLayer: appended unless already listed
AddAffectedLayer(li, layer) ==
    IF \E k \in 1..Len(li.AffectedLayers) : li.AffectedLayers[k] = layer
    THEN li
    ELSE [li EXCEPT !.AffectedLayers = Append(@, layer)]

AddAffectedLayerIf(cond, li, layer) == IF cond THEN AddAffectedLayer(li, layer) ELSE li

\* LayeredIssue.AddImpactedResource
AddImpactedResource(li, layer, resource) ==
    [li EXCEPT !.ImpactedResources[layer] = Append(@, resource)]

\* mutant of determineRootCause: the root cause is always application
determineRootCauseApplication(affectedLayers) == LayerApplication
determineRootCause(affectedLayers) ==
    IF Len(affectedLayers) = 0 THEN LayerApplication
    ELSE IF \E k \in 1..Len(affectedLayers) : affectedLayers[k] = LayerInfrastructure
         THEN LayerInfrastructure
    ELSE IF \E k \in 1..Len(affectedLayers) : affectedLayers[k] = LayerPlatform
         THEN LayerPlatform
    ELSE LayerApplication

resourceToLayer(resource) ==
    IF resource.Kind \in {KindNode, KindMachineConfig, KindMachineConfigPool}
    THEN LayerInfrastructure
    ELSE IF resource.Kind \in {KindClusterOperator, KindNetworkPolicy}
    THEN LayerPlatform
    ELSE IF Contains(resource.Kind, OperatorWord) THEN LayerPlatform
    ELSE LayerApplication

RECURSIVE groupAndAddResourcesFrom(_, _, _)
groupAndAddResourcesFrom(li, resources, k) ==
    IF k > Len(resources) THEN li
    ELSE groupAndAddResourcesFrom(
            AddImpactedResource(li, resourceToLayer(resources[k]), resources[k]),
            resources, k + 1)

groupAndAddResources(li, resources) == groupAndAddResourcesFrom(li, resources, 1)

\* LayerDetector.DetectLayers
DetectLayers(description, resources) ==
    LET li0 == NewLayeredIssue(description, determineInitialLayer(description, resources))
        li1 == AddAffectedLayerIf(hasInfrastructureIssues(description, resources),
                                  li0, LayerInfrastructure)
        li2 == AddAffectedLayerIf(hasPlatformIssues(description, resources),
                                  li1, LayerPlatform)
        li3 == AddAffectedLayerIf(hasApplicationIssues(description, resources),
                                  li2, LayerApplication)
        li4 == [li3 EXCEPT !.RootCauseLayer = determineRootCause(li3.AffectedLayers)]
    IN  groupAndAddResources(li4, resources)

(* The ML-enhanced detector.  Probabilities and confidences are percentages. *)
probabilityThreshold == 75
rootCauseConfidenceThreshold == 85

\* integrations.Pattern: description, type, confidence
Patterns ==
    {[Description |-> <<"n", "o", "d", "e", " ", "p", "r", "e", "s", "s", "u", "r", "e">>, Type |-> <<"a", "n", "o", "m", "a", "l", "y">>, Confidence |-> 90],
     [Description |-> <<"r", "e", "s", "t", "a", "r", "t", "s">>, Type |-> <<"p", "o", "d">>, Confidence |-> 60]}

\* PatternAnalysisResponse: Summary.Confidence and Patterns
MLResponses == [Confidence : {50, 85, 90}, Patterns : SeqsUpTo(Patterns, MaxPatterns)]

\* how detection runs for a request: the handler has no ML detector ("keyword"),
\* the ML detector has no client ("disabled"), AnalyzePatterns fails or times
\* out ("error"), or it answers
MLOutcomes == {[kind |-> k, resp |-> [Confidence |-> 0, Patterns |-> <<>>]] :
                    k \in {"keyword", "disabled", "error"}}
              \cup {[kind |-> "response", resp |-> r] : r \in MLResponses}

\* contains / containsAny of the ML detector: a case-sensitive substring search
containsAny(text, keywords) ==
    \E k \in 1..Len(keywords) : Contains(text, keywords[k])

patternMatchesLayer(pattern, layer) ==
    LET description == pattern.Description \o <<" ">> \o pattern.Type
    IN  CASE layer = LayerInfrastructure ->
                containsAny(description, <<<<"i", "n", "f", "r", "a", "s", "t", "r", "u", "c", "t", "u", "r", "e">>, <<"n", "o", "d", "e">>, <<"m", "c", "o">>, <<"m", "a", "c", "h", "i", "n", "e">>, <<"k", "e", "r", "n", "e", "l">>, <<"o", "s">>>>)
          [] layer = LayerPlatform ->
                containsAny(description, <<<<"p", "l", "a", "t", "f", "o", "r", "m">>, <<"o", "p", "e", "r", "a", "t", "o", "r">>, <<"s", "d", "n">>, <<"n", "e", "t", "w", "o", "r", "k", "i", "n", "g">>, <<"s", "t", "o", "r", "a", "g", "e">>, <<"c", "l", "u", "s", "t", "e", "r">>>>)
          [] layer = LayerApplication ->
                containsAny(description, <<<<"a", "p", "p", "l", "i", "c", "a", "t", "i", "o", "n">>, <<"p", "o", "d">>, <<"d", "e", "p", "l", "o", "y", "m", "e", "n", "t">>, <<"c", "o", "n", "t", "a", "i", "n", "e", "r">>, <<"w", "o", "r", "k", "l", "o", "a", "d">>>>)
          [] OTHER -> FALSE

resourceMatchesLayer(resource, layer) ==
    CASE layer = LayerInfrastructure ->
            resource.Kind \in {KindNode, KindMachineConfig, KindMachineConfigPool}
      [] layer = LayerPlatform ->
            resource.Kind \in {KindClusterOperator, KindNetworkPolicy}
      [] layer = LayerApplication ->
            resource.Kind \in {KindPod, KindDeployment, KindStatefulSet}
      [] OTHER -> FALSE

maxFloat64(a, b) == IF a > b THEN a ELSE b

\* the loop of calculateLayerProbability over resp.Patterns
RECURSIVE boostedProbability(_, _, _, _)
boostedProbability(patterns, layer, k, base) ==
    IF k > Len(patterns) THEN base
    ELSE boostedProbability(patterns, layer, k + 1,
            IF patternMatchesLayer(patterns[k], layer)
            THEN maxFloat64(base, patterns[k].Confidence)
            ELSE base)

calculateLayerProbability(resp, layer, resources) ==
    IF \E k \in 1..Len(resp.Patterns) : patternMatchesLayer(resp.Patterns[k], layer)
    THEN boostedProbability(resp.Patterns, layer, 1, resp.Confidence)
    ELSE IF \E k \in 1..Len(resources) : resourceMatchesLayer(resources[k], layer)
         THEN 70
         ELSE 0

determineMLRootCause(infraProb, platformProb, appProb) ==
    LET maxProb == maxFloat64(infraProb, maxFloat64(platformProb, appProb))
    IN  IF maxProb = infraProb /\ infraProb > 0 THEN LayerInfrastructure
        ELSE IF maxProb = platformProb /\ platformProb > 0 THEN LayerPlatform
        ELSE LayerApplication

\* a *LayerPrediction, Present being FALSE for nil
LayerPrediction(prob, isRoot) ==
    [Present |-> prob > 0, Affected |-> prob > probabilityThreshold,
     Probability |-> prob, IsRootCause |-> prob > 0 /\ isRoot]

parseMLResponse(resp, resources) ==
    LET prob == [l \in Layers |-> calculateLayerProbability(resp, l, resources)]
        suggestion == determineMLRootCause(prob[LayerInfrastructure],
                                           prob[LayerPlatform], prob[LayerApplication])
    IN  [Confidence |-> resp.Confidence,
         Layer |-> [l \in Layers |-> LayerPrediction(prob[l], suggestion = l)],
         RootCauseSuggestion |-> suggestion]

\* one of the three blocks of enhanceWithMLPredictions
enhanceLayer(issue, mlPred, layer) ==
    IF mlPred.Layer[layer].Present /\ mlPred.Layer[layer].Affected
    THEN [AddAffectedLayer(issue, layer) EXCEPT
            !.LayerConfidence[layer] = maxFloat64(@, mlPred.Layer[layer].Probability)]
    ELSE issue

\* mutant of adoptsMLRootCause: the threshold itself is not enough
adoptsMLRootCauseAbove(confidence) == confidence > rootCauseConfidenceThreshold
adoptsMLRootCause(confidence) == confidence >= rootCauseConfidenceThreshold

enhanceWithMLPredictions(issue, mlPred) ==
    LET i0 == [issue EXCEPT !.MLPredictions = mlPred]
        i1 == enhanceLayer(i0, mlPred, LayerInfrastructure)
        i2 == enhanceLayer(i1, mlPred, LayerPlatform)
        i3 == enhanceLayer(i2, mlPred, LayerApplication)
    IN  IF adoptsMLRootCause(mlPred.Confidence)
        THEN [i3 EXCEPT !.RootCauseLayer = mlPred.RootCauseSuggestion]
        ELSE i3

\* MLLayerDetector.DetectLayersWithML
DetectLayersWithML(description, resources, outcome) ==
    LET base == DetectLayers(description, resources)
        keywordIssue ==
            [base EXCEPT
                !.DetectionMethod = "keyword",
                !.LayerConfidence =
                    [l \in Layers |->
                        IF \E k \in 1..Len(base.AffectedLayers) : base.AffectedLayers[k] = l
                        THEN 70 ELSE 0]]
    IN  IF outcome.kind \in {"disabled", "error"}
        THEN keywordIssue
        ELSE [enhanceWithMLPredictions(keywordIssue, parseMLResponse(outcome.resp, resources))
                EXCEPT !.DetectionMethod = "ml_enhanced"]

(* The planner.  wait_time is in minutes; an action_type is the sequence of *)
(* the parts it is concatenated from.                                       *)
\* Layer.Priority
Priority(l) ==
    CASE l = LayerInfrastructure -> 0
      [] l = LayerPlatform -> 1
      [] l = LayerApplication -> 2
      [] OTHER -> 99

Swap(s, a, b) == [s EXCEPT ![a] = s[b], ![b] = s[a]]

\* the two nested loops of GetLayersByPriority (indices are one-based here)
RECURSIVE sortLayersFrom(_, _, _)
sortLayersFrom(layers, a, b) ==
    IF a > Len(layers) THEN layers
    ELSE IF b > Len(layers) THEN sortLayersFrom(layers, a + 1, a + 2)
    ELSE sortLayersFrom(IF Priority(layers[a]) > Priority(layers[b])
                        THEN Swap(layers, a, b) ELSE layers,
                        a, b + 1)

GetLayersByPriority(li) == sortLayersFrom(li.AffectedLayers, 1, 2)

GetResourcesForLayer(li, layer) == li.ImpactedResources[layer]

\* fmt.Sprintf("%s/%s", resource.Namespace, resource.Name)
NamespacedTarget(resource) == resource.Namespace \o <<"/">> \o resource.Name

PlanStep(layer, order, actionType, target, waitTime, required) ==
    [Layer |-> layer, Order |-> order, ActionType |-> <<actionType>>,
     Target |-> target, WaitTime |-> waitTime, Required |-> required]

\* the steps one resource contributes in generateInfrastructureSteps
infrastructureStepsFor(resource, order) ==
    CASE resource.Kind = KindNode ->
            <<PlanStep(LayerInfrastructure, order, "monitor_mco", resource.Name, 5, TRUE)>>
      [] resource.Kind = KindMachineConfig ->
            <<PlanStep(LayerInfrastructure, order, "monitor_machineconfig",
                       resource.Name, 10, TRUE)>>
      [] resource.Kind = KindMachineConfigPool ->
            <<PlanStep(LayerInfrastructure, order, "monitor_mcp", resource.Name, 15, TRUE)>>
      [] OTHER -> <<>>

\* the steps one resource contributes in generatePlatformSteps: two
\* independent if statements
platformStepsFor(resource, order) ==
    LET first == IF Contains(resource.Kind, OperatorWord)
                 THEN <<PlanStep(LayerPlatform, order, "trigger_operator_reconciliation",
                                 NamespacedTarget(resource), 3, TRUE)>>
                 ELSE <<>>
        second == IF resource.Kind = KindClusterOperator
                  THEN <<PlanStep(LayerPlatform, order + Len(first),
                                  "monitor_clusteroperator", resource.Name, 5, TRUE)>>
                  ELSE <<>>
    IN  first \o second

\* the steps one resource contributes in generateApplicationSteps
applicationStepsFor(resource, order) ==
    CASE resource.Kind = KindPod ->
            <<PlanStep(LayerApplication, order, "restart_pod",
                       NamespacedTarget(resource), 2, FALSE)>>
      [] resource.Kind = KindDeployment ->
            <<PlanStep(LayerApplication, order, "restart_deployment",
                       NamespacedTarget(resource), 2, FALSE)>>
      [] resource.Kind = KindStatefulSet ->
            <<PlanStep(LayerApplication, order, "restart_statefulset",
                       NamespacedTarget(resource), 3, FALSE)>>
      [] OTHER -> <<>>

stepsFor(layer, resource, order) ==
    CASE layer = LayerInfrastructure -> infrastructureStepsFor(resource, order)
      [] layer = LayerPlatform -> platformStepsFor(resource, order)
      [] layer = LayerApplication -> applicationStepsFor(resource, order)
      [] OTHER -> <<>>

\* generateStepsForLayer: the loop over the layer's resources; stepOrder is
\* advanced by one for every step appended
RECURSIVE generateStepsFrom(_, _, _, _, _)
generateStepsFrom(layer, resources, k, stepOrder, steps) ==
    IF k > Len(resources) THEN steps
    ELSE LET new == stepsFor(layer, resources[k], stepOrder)
         IN  generateStepsFrom(layer, resources, k + 1, stepOrder + Len(new), steps \o new)

generateStepsForLayer(layer, resources, stepOrder) ==
    generateStepsFrom(layer, resources, 1, stepOrder, <<>>)

\* mutant of AddStep: the step is put in front
AddStepFirst(steps, step) == <<step>> \o steps
AddStep(steps, step) ==
    Append(steps, IF step.Order = 0 THEN [step EXCEPT !.Order = Len(steps) + 1] ELSE step)

RECURSIVE AddAll(_, _, _)
AddAll(steps, layerSteps, k) ==
    IF k > Len(layerSteps) THEN steps
    ELSE AddAll(AddStep(steps, layerSteps[k]), layerSteps, k + 1)

\* the loop of GeneratePlan over orderedLayers
RECURSIVE generateSteps(_, _, _, _, _)
generateSteps(issue, orderedLayers, k, stepOrder, steps) ==
    IF k > Len(orderedLayers) THEN steps
    ELSE LET layerSteps == generateStepsForLayer(orderedLayers[k],
                                GetResourcesForLayer(issue, orderedLayers[k]), stepOrder)
         IN  generateSteps(issue, orderedLayers, k + 1, stepOrder + Len(layerSteps),
                           AddAll(steps, layerSteps, 1))

\* lastStepPerLayer[layer] after the loop over steps; 0 when the key is missing
RECURSIVE lastStepFrom(_, _, _, _)
lastStepFrom(steps, layer, k, last) ==
    IF k > Len(steps) THEN last
    ELSE lastStepFrom(steps, layer, k + 1,
                      IF steps[k].Layer = layer THEN steps[k].Order ELSE last)

lastStepPerLayer(steps, layer) == lastStepFrom(steps, layer, 1, 0)
layerHasStep(steps, layer) == \E k \in 1..Len(steps) : steps[k].Layer = layer

RECURSIVE generateCheckpointsFrom(_, _, _, _)
generateCheckpointsFrom(layers, steps, k, checkpoints) ==
    IF k > Len(layers) THEN checkpoints
    ELSE generateCheckpointsFrom(layers, steps, k + 1,
            IF ~layerHasStep(steps, layers[k]) THEN checkpoints
            ELSE Append(checkpoints,
                        [Layer |-> layers[k],
                         AfterStep |-> lastStepPerLayer(steps, layers[k]),
                         Timeout |-> 10, Required |-> TRUE]))

generateCheckpoints(layers, steps) == generateCheckpointsFrom(layers, steps, 1, <<>>)

rollbackOf(step, order) ==
    [step EXCEPT !.Order = order, !.ActionType = <<"rollback_">> \o @]

\* mutant of generateRollbackSteps: the steps are mirrored front to back
generateRollbackStepsForward(steps) == [k \in 1..Len(steps) |-> rollbackOf(steps[k], k)]
\* the loop for i := len(steps)-1; i >= 0; i--: the k-th entry appended is
\* made from steps[i] with i = len(steps)-k and gets Order len(steps)-i
generateRollbackSteps(steps) ==
    [k \in 1..Len(steps) |-> rollbackOf(steps[Len(steps) - k + 1], k)]

\* MultiLayerPlanner.GeneratePlan
GeneratePlan(issue) ==
    LET orderedLayers == GetLayersByPriority(issue)
        steps == generateSteps(issue, orderedLayers, 1, 1, <<>>)
    IN  [Layers |-> orderedLayers,
         Steps |-> steps,
         Checkpoints |-> generateCheckpoints(orderedLayers, steps),
         RollbackSteps |-> generateRollbackSteps(steps),
         Status |-> "pending",
         CurrentStep |-> 0]

\* RecordMLLayerDetection(success, mlAvailable)
RecordMLLayerDetection(counter, success, mlAvailable) ==
    Inc(counter, <<success, mlAvailable>>)

\* the two arguments DetectLayersWithML passes to RecordMLLayerDetection on
\* each of its three returns: (false, false) when ML is disabled,
\* (false, true) when getMLPredictions fails, (true, true) otherwise
mlRecordedSuccess(outcome) == outcome.kind = "response"
mlRecordedAvailable(outcome) == outcome.kind # "disabled"

\* POST /api/v1/coordination/trigger, first part: layer detection
TriggerDetect ==
    /\ planPc = "received"
    /\ layeredIssue' =
            IF request.ml.kind = "keyword"
            THEN DetectLayers(request.Description, request.Resources)
            ELSE DetectLayersWithML(request.Description, request.Resources, request.ml)
    /\ MLLayerDetectionTotal' =
            IF request.ml.kind = "keyword"
            THEN MLLayerDetectionTotal
            ELSE RecordMLLayerDetection(MLLayerDetectionTotal,
                    mlRecordedSuccess(request.ml), mlRecordedAvailable(request.ml))
    /\ planPc' = "detected"
    /\ UNCHANGED <<request, remediationPlan>>
    /\ UNCHANGED nonPlanVars

\* POST /api/v1/coordination/trigger, second part: plan generation
TriggerPlan ==
    /\ planPc = "detected"
    /\ remediationPlan' = GeneratePlan(layeredIssue)
    /\ planPc' = "planned"
    /\ UNCHANGED <<request, layeredIssue, MLLayerDetectionTotal>>
    /\ UNCHANGED nonPlanVars

InitPlanner ==
    /\ plan = NewRemediationPlan(<<>>, <<>>)
    /\ InitExecution
    /\ InitRegistries
    /\ InitLocking
    /\ InitMain
    /\ InitHealth
    /\ InitWatching
    /\ InitRemediation
    /\ InitSelector
    /\ InitClassify
    /\ InitDetector
    /\ \E description \in Descriptions, resources \in ResourceLists, ml \in MLOutcomes :
            request = [Description |-> description, Resources |-> resources, ml |-> ml]
    /\ layeredIssue = NoIssue
    /\ remediationPlan = NoPlan
    /\ planPc = "received"
    /\ MLLayerDetectionTotal = EmptyCounter

NextPlanner ==
    \/ TriggerDetect
    \/ TriggerPlan

SpecPlanner == InitPlanner /\ [][NextPlanner]_vars

\* C16: in a generated plan the step orders are 1..|steps| in list order and
\* no step of a layer comes before a step of a layer of higher priority
\* (infrastructure, then platform, then application).
C16_StepOrdering ==
    planPc = "planned" =>
        LET steps == remediationPlan.Steps
        IN  /\ \A k \in 1..Len(steps) : steps[k].Order = k
            /\ \A a, b \in 1..Len(steps) :
                    a < b => Priority(steps[a].Layer) <= Priority(steps[b].Layer)

\* a plan with an infrastructure step first and an application step last
C16_Witness ==
    /\ planPc = "planned"
    /\ Len(remediationPlan.Steps) >= 2
    /\ remediationPlan.Steps[1].Layer = LayerInfrastructure
    /\ remediationPlan.Steps[Len(remediationPlan.Steps)].Layer = LayerApplication

\* the checkpoints are one per listed layer, in the order of the list, each
\* anchored at the order of the last step of its layer
CheckpointsFollow(layers, p) ==
    /\ Len(p.Checkpoints) = Len(layers)
    /\ \A k \in 1..Len(layers) :
        /\ p.Checkpoints[k].Layer = layers[k]
        /\ \E j \in 1..Len(p.Steps) :
            /\ p.Steps[j].Layer = layers[k]
            /\ p.Checkpoints[k].AfterStep = p.Steps[j].Order
            /\ \A m \in (j + 1)..Len(p.Steps) : p.Steps[m].Layer # layers[k]

\* C17 (as claimed): a generated plan has exactly one checkpoint for each
\* affected layer of the issue, in layer-priority order, and each checkpoint's
\* after_step is the order of the last step of its layer.
C17_CheckpointPerAffectedLayer ==
    planPc = "planned" =>
        CheckpointsFollow(GetLayersByPriority(layeredIssue), remediationPlan)

\* the steps made for the k-th impacted resource of a layer
StepsOfResource(p, layer, resource) ==
    {j \in 1..Len(p.Steps) :
        /\ p.Steps[j].Layer = layer
        /\ p.Steps[j].Target \in {resource.Name, NamespacedTarget(resource)}}

\* the planner table of the specification: action_type, wait_time (minutes)
\* and required flag for the kinds it lists
TableKinds == {KindNode, KindMachineConfig, KindMachineConfigPool, KindClusterOperator,
               KindEtcdOperator, KindPod, KindDeployment, KindStatefulSet}
TableRow(kind) ==
    CASE kind = KindNode -> <<"monitor_node_update", 5, TRUE>>
      [] kind = KindMachineConfig -> <<"monitor_machineconfig", 10, TRUE>>
      [] kind = KindMachineConfigPool -> <<"monitor_mcp", 15, TRUE>>
      [] kind = KindClusterOperator -> <<"monitor_clusteroperator", 5, TRUE>>
      [] kind = KindEtcdOperator -> <<"trigger_operator_reconciliation", 3, TRUE>>
      [] kind = KindPod -> <<"restart_pod", 2, FALSE>>
      [] kind = KindDeployment -> <<"restart_deployment", 2, FALSE>>
      [] kind = KindStatefulSet -> <<"restart_statefulset", 3, FALSE>>

\* C18 (as claimed): a generated plan has exactly one step for every impacted
\* resource of every affected layer, and for the kinds of the planner table
\* that step has the table's action_type, wait_time and required flag.
C18_OneStepPerResource ==
    planPc = "planned" =>
        \A a \in 1..Len(layeredIssue.AffectedLayers) :
            LET layer == layeredIssue.AffectedLayers[a]
                resources == layeredIssue.ImpactedResources[layer]
            IN  \A k \in 1..Len(resources) :
                    LET made == StepsOfResource(remediationPlan, layer, resources[k])
                    IN  /\ Cardinality(made) = 1
                        /\ resources[k].Kind \in TableKinds =>
                            \A j \in made :
                                <<remediationPlan.Steps[j].ActionType[1],
                                  remediationPlan.Steps[j].WaitTime,
                                  remediationPlan.Steps[j].Required>> = TableRow(resources[k].Kind)

\* C19: rollback_steps is as long as steps, and its i-th entry has the layer
\* and target of the forward step at position |steps|-i+1 and that step's
\* action_type prefixed with "rollback_".
C19_RollbackMirror ==
    planPc = "planned" =>
        LET steps == remediationPlan.Steps
            back == remediationPlan.RollbackSteps
        IN  /\ Len(back) = Len(steps)
            /\ \A n \in 1..Len(back) :
                LET fwd == steps[Len(steps) - n + 1]
                IN  /\ back[n].Layer = fwd.Layer
                    /\ back[n].Target = fwd.Target
                    /\ back[n].ActionType = <<"rollback_">> \o fwd.ActionType

\* a plan of two steps for different resources of different layers
C19_Witness ==
    /\ planPc = "planned"
    /\ Len(remediationPlan.Steps) = 2
    /\ remediationPlan.Steps[1].Layer # remediationPlan.Steps[2].Layer
    /\ remediationPlan.Steps[1].Target # remediationPlan.Steps[2].Target
    /\ remediationPlan.RollbackSteps[1].ActionType = <<"rollback_", "restart_pod">>

\* C20 (as claimed): every LayeredIssue that layer detection returns, from
\* keywords alone or enhanced by ML predictions, has at least one affected
\* layer and a root cause layer that is one of its affected layers.
C20_RootCauseAmongAffected ==
    planPc \in {"detected", "planned"} =>
        /\ Len(layeredIssue.AffectedLayers) > 0
        /\ \E a \in 1..Len(layeredIssue.AffectedLayers) :
                layeredIssue.AffectedLayers[a] = layeredIssue.RootCauseLayer

\* the root cause the keyword heuristic prescribes for a list of affected layers
LowestAffected(affectedLayers) ==
    IF \E k \in 1..Len(affectedLayers) : affectedLayers[k] = LayerInfrastructure
    THEN LayerInfrastructure
    ELSE IF \E k \in 1..Len(affectedLayers) : affectedLayers[k] = LayerPlatform
    THEN LayerPlatform
    ELSE LayerApplication

\* no keyword and no resource kind of the request points at any layer
NoLayerMatched ==
    /\ ~hasInfrastructureIssues(request.Description, request.Resources)
    /\ ~hasPlatformIssues(request.Description, request.Resources)
    /\ ~hasApplicationIssues(request.Description, request.Resources)

\* C21: the issue keyword detection returns has as its root cause the lowest
\* of its affected layers (infrastructure, else platform, else application),
\* and when nothing matched it has application as its only affected layer
\* and as its root cause.
C21_KeywordRootCauseLowest ==
    (planPc \in {"detected", "planned"} /\ layeredIssue.DetectionMethod = "keyword") =>
        /\ layeredIssue.RootCauseLayer = LowestAffected(layeredIssue.AffectedLayers)
        /\ NoLayerMatched =>
            /\ layeredIssue.AffectedLayers = <<LayerApplication>>
            /\ layeredIssue.RootCauseLayer = LayerApplication

\* a keyword issue of several layers whose root cause is not application
C21_Witness ==
    /\ planPc = "detected"
    /\ layeredIssue.DetectionMethod = "keyword"
    /\ Len(layeredIssue.AffectedLayers) >= 2
    /\ layeredIssue.RootCauseLayer = LayerPlatform

\* the root cause keyword detection gives for the request
KeywordRootCause == DetectLayers(request.Description, request.Resources).RootCauseLayer

\* C22: an ML-enhanced issue has the ML-suggested root cause when the overall
\* ML confidence is at least 0.85, and the keyword root cause when it is
\* below 0.85.
C22_MLRootCauseThreshold ==
    (planPc \in {"detected", "planned"} /\ layeredIssue.DetectionMethod = "ml_enhanced") =>
        IF request.ml.resp.Confidence >= 85
        THEN layeredIssue.RootCauseLayer = layeredIssue.MLPredictions.RootCauseSuggestion
        ELSE layeredIssue.RootCauseLayer = KeywordRootCause

\* a response of confidence exactly 0.85 whose suggestion replaced a
\* different keyword root cause
C22_Witness ==
    /\ planPc = "detected"
    /\ layeredIssue.DetectionMethod = "ml_enhanced"
    /\ request.ml.resp.Confidence = 85
    /\ layeredIssue.RootCauseLayer # KeywordRootCause

\* C23 (as claimed): when ML is disabled, fails or times out, the returned
\* issue is the keyword result (same affected layers and root cause, method
\* "keyword", no predictions) and the only ML-detection metric recorded has
\* ml_available = false.
C23_MLFailureFallsBack ==
    (planPc \in {"detected", "planned"} /\ request.ml.kind \in {"disabled", "error"}) =>
        LET keywordIssue == DetectLayers(request.Description, request.Resources)
        IN  /\ layeredIssue.AffectedLayers = keywordIssue.AffectedLayers
            /\ layeredIssue.RootCauseLayer = keywordIssue.RootCauseLayer
            /\ layeredIssue.DetectionMethod = "keyword"
            /\ layeredIssue.MLPredictions = NoPredictions
            /\ \E success \in BOOLEAN :
                    /\ Count(MLLayerDetectionTotal, <<success, FALSE>>) = 1
                    /\ \A key \in DOMAIN MLLayerDetectionTotal : key = <<success, FALSE>>

(* The strategy selector.  A remediator is <<Name(), instance>>: two        *)
(* remediators of one type are different values of the Remediator          *)
(* interface.                                                              *)
DeploymentMethods == {"argocd", "helm", "operator", "manual", "unknown"}
RemediatorNames == {"argocd", "helm", "operator", "manual"}
\* two instances of each type of remediator
Remediators == RemediatorNames \X {1, 2}

\* CanRemediate of ArgoCDRemediator, HelmRemediator, OperatorRemediator and
\* ManualRemediator
CanRemediate(remediator, method) ==
    CASE remediator[1] = "argocd" -> method = "argocd"
      [] remediator[1] = "helm" -> method = "helm"
      [] remediator[1] = "operator" -> method = "operator"
      [] remediator[1] = "manual" -> method \in {"manual", "unknown"}
      [] OTHER -> FALSE

\* the for loop of SelectRemediator from index k on, then the fallback
RECURSIVE SelectRemediatorFrom(_, _, _, _)
\* mutant of SelectRemediator: the fallback is tried before the registered ones
SelectRemediatorFallbackFirst(registered, fallback, method) ==
    IF fallback # NoRemediator THEN fallback
    ELSE SelectRemediatorFrom(registered, fallback, method, 1)
SelectRemediator(registered, fallback, method) ==
    SelectRemediatorFrom(registered, fallback, method, 1)
SelectRemediatorFrom(registered, fallback, method, k) ==
    IF k > Len(registered) THEN fallback
    ELSE IF CanRemediate(registered[k], method) THEN registered[k]
    ELSE SelectRemediatorFrom(registered, fallback, method, k + 1)

\* StrategySelector.RegisterRemediator
RegisterRemediator ==
    /\ Len(remediators) < MaxRemediators
    /\ \E remediator \in Remediators : remediators' = Append(remediators, remediator)
    /\ UNCHANGED <<fallbackRemediator, remediations, lastRemediation>>
    /\ UNCHANGED nonSelVars

\* StrategySelector.SetFallbackRemediator
SetFallbackRemediator ==
    /\ \E remediator \in Remediators : fallbackRemediator' = remediator
    /\ UNCHANGED <<remediators, remediations, lastRemediation>>
    /\ UNCHANGED nonSelVars

\* StrategySelector.Remediate: the entry records the method asked for, the
\* remediators whose Remediate was called, and the error returned
SelectorRemediate ==
    /\ remediations < MaxRemediations
    /\ remediations' = remediations + 1
    /\ \E method \in DeploymentMethods, err \in {"nil", "failed"} :
        LET remediator == SelectRemediator(remediators, fallbackRemediator, method)
        IN  lastRemediation' =
                IF remediator = NoRemediator
                THEN [Method |-> method, Called |-> <<>>,
                      Err |-> "no remediator available for deployment method"]
                ELSE [Method |-> method, Called |-> <<remediator>>,
                      Err |-> IF err = "nil" THEN "nil" ELSE "remediation failed"]
    /\ UNCHANGED <<remediators, fallbackRemediator>>
    /\ UNCHANGED nonSelVars

NextSelector ==
    \/ RegisterRemediator
    \/ SetFallbackRemediator
    \/ SelectorRemediate

SpecSelector == InitRegistry /\ [][NextSelector]_vars

\* the registered remediators that can handle a method, by position
Handlers(method) == {k \in 1..Len(remediators) : CanRemediate(remediators[k], method)}

\* C24: a Remediate call invokes exactly one remediator, the first registered
\* one that can handle the deployment info, else the fallback; with none
\* registered and no fallback it invokes none and returns the error
\* "no remediator available".
C24_FirstMatchOrFallback ==
    [][remediations' = remediations + 1 =>
        LET entry == lastRemediation'
            handlers == Handlers(entry.Method)
        IN  /\ handlers # {} =>
                entry.Called = <<remediators[CHOOSE k \in handlers : \A m \in handlers : k <= m]>>
            /\ (handlers = {} /\ fallbackRemediator # NoRemediator) =>
                entry.Called = <<fallbackRemediator>>
            /\ (remediators = <<>> /\ fallbackRemediator = NoRemediator) =>
                /\ entry.Called = <<>>
                /\ entry.Err = "no remediator available for deployment method"]_vars

\* two registered remediators can handle the method, a different fallback is
\* set, and the first registered one was called
C24_Witness ==
    /\ Len(remediators) = 2
    /\ remediators[1] # remediators[2]
    /\ fallbackRemediator \notin {NoRemediator, remediators[1], remediators[2]}
    /\ remediations = 1
    /\ Handlers(lastRemediation.Method) = {1, 2}
    /\ lastRemediation.Called = <<remediators[1]>>

(* The deployment detector.  Metadata maps are functions from the keys     *)
(* present to their values; values are sequences of characters;            *)
(* confidences are percentages.                                            *)
ArgoCDTrackingAnnotation == "argocd.argoproj.io/tracking-id"
ArgoCDInstanceLabel == "argocd.argoproj.io/instance"
HelmReleaseNameAnnotation == "meta.helm.sh/release-name"
HelmReleaseNamespaceAnnotation == "meta.helm.sh/release-namespace"
HelmChartLabel == "helm.sh/chart"
ManagedByLabel == "app.kubernetes.io/managed-by"
ConfidenceArgoCD == 95
ConfidenceHelm == 90
ConfidenceOperator == 80
ConfidenceManual == 60
ConfidenceSubstitute == 50

\* mutant of NewDeploymentInfo: the confidence passed in is ignored
NewDeploymentInfoManualConfidence(resourceKind, method, confidence, source, details) ==
    [Method |-> method, Confidence |-> ConfidenceManual, Source |-> source,
     ResourceKind |-> resourceKind, Details |-> details]
NewDeploymentInfo(resourceKind, method, confidence, source, details) ==
    [Method |-> method, Confidence |-> confidence, Source |-> source,
     ResourceKind |-> resourceKind, Details |-> details]

\* DeploymentInfo.SetDetail when the metadata map m has the key, else nothing
DetailIf(m, key, detail) == IF key \in DOMAIN m THEN detail :> m[key] ELSE <<>>

Has(m, key) == key \in DOMAIN m /\ m[key] # <<>>

isOperatorManager(managedBy) ==
    \/ containsAny(ToLower(managedBy), <<<<"o", "p", "e", "r", "a", "t", "o", "r">>, <<".", "o", "p", "e", "r", "a", "t", "o", "r">>, <<"-", "o", "p", "e", "r", "a", "t", "o", "r">>>>)
    \/ ToLower(managedBy) \in {<<"p", "r", "o", "m", "e", "t", "h", "e", "u", "s", "-", "o", "p", "e", "r", "a", "t", "o", "r">>,
                               <<"e", "t", "c", "d", "-", "o", "p", "e", "r", "a", "t", "o", "r">>,
                               <<"m", "y", "s", "q", "l", "-", "o", "p", "e", "r", "a", "t", "o", "r">>,
                               <<"p", "o", "s", "t", "g", "r", "e", "s", "-", "o", "p", "e", "r", "a", "t", "o", "r">>,
                               <<"r", "e", "d", "i", "s", "-", "o", "p", "e", "r", "a", "t", "o", "r">>,
                               <<"k", "a", "f", "k", "a", "-", "o", "p", "e", "r", "a", "t", "o", "r">>,
                               <<"e", "l", "a", "s", "t", "i", "c", "-", "o", "p", "e", "r", "a", "t", "o", "r">>,
                               <<"m", "o", "n", "g", "o", "d", "b", "-", "o", "p", "e", "r", "a", "t", "o", "r">>}

\* the condition of the operator branch of detectFromMetadata
isOperatorManaged(labels) ==
    /\ Has(labels, ManagedByLabel)
    /\ labels[ManagedByLabel] # <<"H", "e", "l", "m">>
    /\ ~Contains(ToLower(labels[ManagedByLabel]), <<"h", "e", "l", "m">>)
    /\ isOperatorManager(labels[ManagedByLabel])

\* mutant of detectFromMetadata: the Helm annotation is looked at first
detectFromMetadataHelmFirst(annotations, labels, resourceKind) ==
    IF Has(annotations, HelmReleaseNameAnnotation)
    THEN NewDeploymentInfo(resourceKind, "helm", ConfidenceHelm,
            "annotation:meta.helm.sh/release-name", <<>>)
    ELSE IF Has(annotations, ArgoCDTrackingAnnotation) \/ Has(labels, ArgoCDInstanceLabel)
    THEN NewDeploymentInfo(resourceKind, "argocd", ConfidenceArgoCD,
            "annotation:argocd.argoproj.io/tracking-id", <<>>)
    ELSE NewDeploymentInfo(resourceKind, "manual", ConfidenceManual, "default", <<>>)
detectFromMetadata(annotations, labels, resourceKind) ==
    IF Has(annotations, ArgoCDTrackingAnnotation)
    THEN NewDeploymentInfo(resourceKind, "argocd", ConfidenceArgoCD,
            "annotation:argocd.argoproj.io/tracking-id",
            DetailIf(labels, "app.kubernetes.io/instance", "argocd_app")
            @@ DetailIf(labels, ArgoCDInstanceLabel, "app_name")
            @@ ("tracking_id" :> annotations[ArgoCDTrackingAnnotation]))
    ELSE IF Has(labels, ArgoCDInstanceLabel)
    THEN NewDeploymentInfo(resourceKind, "argocd", ConfidenceArgoCD,
            "label:argocd.argoproj.io/instance",
            "argocd_app" :> labels[ArgoCDInstanceLabel])
    ELSE IF Has(annotations, HelmReleaseNameAnnotation)
    THEN NewDeploymentInfo(resourceKind, "helm", ConfidenceHelm,
            "annotation:meta.helm.sh/release-name",
            DetailIf(labels, HelmChartLabel, "chart")
            @@ DetailIf(annotations, HelmReleaseNamespaceAnnotation, "release_namespace")
            @@ ("release_name" :> annotations[HelmReleaseNameAnnotation]))
    ELSE IF isOperatorManaged(labels)
    THEN NewDeploymentInfo(resourceKind, "operator", ConfidenceOperator,
            "label:app.kubernetes.io/managed-by",
            DetailIf(labels, "app.kubernetes.io/name", "operator_name")
            @@ ("managed_by" :> labels[ManagedByLabel])
            @@ ("operator" :> labels[ManagedByLabel]))
    ELSE NewDeploymentInfo(resourceKind, "manual", ConfidenceManual, "default",
            DetailIf(labels, "version", "version")
            @@ DetailIf(labels, "app", "app")
            @@ ("reason" :> <<"n", "o", "n", "e">>))

\* the metadata maps of the model: every key is absent, empty or set
Values == {<<>>, <<"v">>}
MapsOver(keys, values) == UNION {[present -> values] : present \in SUBSET keys}
ManagedByValues ==
    {<<>>, <<"H", "e", "l", "m">>, <<"h", "e", "l", "m", "-", "o", "p", "e", "r", "a", "t", "o", "r">>,
     <<"P", "r", "o", "m", "e", "t", "h", "e", "u", "s", "-", "O", "p", "e", "r", "a", "t", "o", "r">>, <<"e", "t", "c", "d", "-", "o", "p", "e", "r", "a", "t", "o", "r">>, <<"k", "u", "s", "t", "o", "m", "i", "z", "e">>}
AnnotationMaps == MapsOver({ArgoCDTrackingAnnotation, HelmReleaseNameAnnotation}, Values)
LabelMaps ==
    {instance @@ managedBy :
        instance \in MapsOver({ArgoCDInstanceLabel}, Values),
        managedBy \in MapsOver({ManagedByLabel}, ManagedByValues)}
Objects == [Annotations : AnnotationMaps, Labels : LabelMaps, Kind : {"Deployment"}]

\* Orchestrator.TriggerRemediation up to the creation of the workflow:
\* detectDeploymentMethod, and on its error the substitute info
DetectForRemediation ==
    /\ classifyPc = "issue"
    /\ deploymentInfo' =
            IF object = NotFound
            THEN NewDeploymentInfo("Deployment", "unknown", ConfidenceSubstitute, "", <<>>)
            ELSE detectFromMetadata(object.Annotations, object.Labels, object.Kind)
    /\ classifyPc' = "detected"
    /\ UNCHANGED object
    /\ UNCHANGED nonClassVars

InitClassifier ==
    /\ plan = NewRemediationPlan(<<>>, <<>>)
    /\ InitExecution
    /\ InitRegistries
    /\ InitLocking
    /\ InitMain
    /\ InitHealth
    /\ InitWatching
    /\ InitRemediation
    /\ InitSelector
    /\ InitPlanning
    /\ InitDetector
    /\ object \in Objects \cup {NotFound}
    /\ deploymentInfo = NoInfo
    /\ classifyPc = "issue"

NextClassifier == DetectForRemediation

SpecClassifier == InitClassifier /\ [][NextClassifier]_vars

\* the conditions of the classification rules as the specification words
\* them: GitOps on a non-empty tracking annotation or a present instance
\* label, template tool on a present release-name annotation,
\* controller-managed on a managed-by label that is not Helm's and names an
\* operator
GitOpsRule(o) ==
    \/ Has(o.Annotations, ArgoCDTrackingAnnotation)
    \/ ArgoCDInstanceLabel \in DOMAIN o.Labels
TemplateToolRule(o) == HelmReleaseNameAnnotation \in DOMAIN o.Annotations
ControllerRule(o) ==
    /\ ManagedByLabel \in DOMAIN o.Labels
    /\ ~Contains(ToLower(o.Labels[ManagedByLabel]), ToLower(<<"H", "e", "l", "m">>))
    /\ isOperatorManager(o.Labels[ManagedByLabel])
HighestPriorityMethod(o) ==
    IF GitOpsRule(o) THEN "argocd"
    ELSE IF TemplateToolRule(o) THEN "helm"
    ELSE IF ControllerRule(o) THEN "operator"
    ELSE "manual"

HighestPriorityNonEmpty(o) ==
    IF Has(o.Annotations, ArgoCDTrackingAnnotation) \/ Has(o.Labels, ArgoCDInstanceLabel)
    THEN "argocd"
    ELSE IF Has(o.Annotations, HelmReleaseNameAnnotation) THEN "helm"
    ELSE IF ControllerRule(o) THEN "operator"
    ELSE "manual"

CanonicalConfidence(method) ==
    CASE method = "argocd" -> 95
      [] method = "helm" -> 90
      [] method = "operator" -> 80
      [] method = "manual" -> 60
      [] OTHER -> -1

\* C26 (as claimed): every DeploymentInfo the system produces has a
\* confidence in [0,1] equal to the canonical value of its method.
C26_CanonicalConfidence ==
    classifyPc = "detected" =>
        /\ deploymentInfo.Confidence \in 0..100
        /\ deploymentInfo.Confidence = CanonicalConfidence(deploymentInfo.Method)

\* C26 (amended): every DeploymentInfo has a confidence in [0,1]; one the
\* detector returned has the canonical value of its method, and the one
\* substituted when detection fails has method unknown and confidence 0.5.
C26_CanonicalOrSubstitute ==
    classifyPc = "detected" =>
        /\ deploymentInfo.Confidence \in 0..100
        /\ IF object = NotFound
           THEN deploymentInfo.Method = "unknown" /\ deploymentInfo.Confidence = 50
           ELSE /\ deploymentInfo.Method \in {"argocd", "helm", "operator", "manual"}
                /\ deploymentInfo.Confidence = CanonicalConfidence(deploymentInfo.Method)

\* an operator-managed workload was classified with confidence 0.80
C26_Witness ==
    /\ classifyPc = "detected"
    /\ object # NotFound
    /\ deploymentInfo.Method = "operator"
    /\ deploymentInfo.Confidence = 80

(* The detector's cache.  Time is counted in minutes.                      *)
ttl == 5

\* fmt.Sprintf("deployment/%s/%s", namespace, name) and its two siblings,
\* for the one namespace and name of the model
cacheKey(kind) ==
    CASE kind = "Deployment" -> <<"deployment", "default", "app">>
      [] kind = "StatefulSet" -> <<"statefulset", "default", "app">>
      [] kind = "DaemonSet" -> <<"daemonset", "default", "app">>

\* mutant of cacheGet: an entry never expires
cacheGetNoExpiry(cache, key, at) ==
    IF key \notin DOMAIN cache THEN NoInfo ELSE cache[key].info
\* deploymentCache.get, NoInfo for nil
cacheGet(cache, key, at) ==
    IF key \notin DOMAIN cache THEN NoInfo
    ELSE IF at > cache[key].expiresAt THEN NoInfo
    ELSE cache[key].info

\* deploymentCache.set
cacheSet(cache, key, info, at) ==
    (key :> [info |-> info, expiresAt |-> at + ttl]) @@ cache

\* mutant of clientGet: a missing workload is answered with an empty object
clientGetEmptyObject(workloads, kind, outcome) ==
    IF outcome = "api_error" THEN [Object |-> NotFound, Err |-> "api error"]
    ELSE [Object |-> [Annotations |-> <<>>, Labels |-> <<>>, Kind |-> kind], Err |-> "nil"]
\* clientset.AppsV1().<Kind>(namespace).Get
clientGet(workloads, kind, outcome) ==
    IF outcome = "api_error" THEN [Object |-> NotFound, Err |-> "api error"]
    ELSE IF workloads[kind] = NotFound THEN [Object |-> NotFound, Err |-> "not found"]
    ELSE [Object |-> workloads[kind], Err |-> "nil"]

\* DetectedAt: time.Now() of NewDeploymentInfo
DetectedAt(info, at) == ("DetectedAt" :> at) @@ info

\* RecordDetection(method, source, kind, confidence, cached)
RecordDetection(counter, method, source, kind, cached) ==
    Inc(counter, <<method, source, kind, cached>>)

\* RecordDetectionError(errorType, kind)
RecordDetectionError(counter, err, kind) ==
    Inc(counter, <<IF err = "not found" THEN "not_found" ELSE "api_error", kind>>)

\* the common body of DetectDeploymentMethod, DetectStatefulSetMethod and
\* DetectDaemonSetMethod; only the first records metrics
Detect(kind, recordsMetrics) ==
    /\ detections < MaxDetections
    /\ \E outcome \in {"ok", "api_error"} :
        LET key == cacheKey(kind)
            cached == cacheGet(entries, key, clock)
            got == clientGet(cluster, kind, outcome)
        IN  IF cached # NoInfo
            THEN /\ outcome = "ok"
                 /\ lastDetection' = [Kind |-> kind, Info |-> cached, Err |-> "nil"]
                 /\ DetectionTotal' =
                        IF recordsMetrics
                        THEN RecordDetection(DetectionTotal, cached.Method, cached.Source, kind, TRUE)
                        ELSE DetectionTotal
                 /\ UNCHANGED <<entries, clusterGets, DetectionErrorsTotal>>
            ELSE IF got.Err # "nil"
            THEN /\ lastDetection' = [Kind |-> kind, Info |-> NoInfo, Err |-> got.Err]
                 /\ clusterGets' = Append(clusterGets, key)
                 /\ DetectionErrorsTotal' =
                        IF recordsMetrics
                        THEN RecordDetectionError(DetectionErrorsTotal, got.Err, kind)
                        ELSE DetectionErrorsTotal
                 /\ UNCHANGED <<entries, DetectionTotal>>
            ELSE LET info == DetectedAt(detectFromMetadata(got.Object.Annotations,
                                            got.Object.Labels, kind), clock)
                 IN  /\ lastDetection' = [Kind |-> kind, Info |-> info, Err |-> "nil"]
                     /\ clusterGets' = Append(clusterGets, key)
                     /\ entries' = cacheSet(entries, key, info, clock)
                     /\ DetectionTotal' =
                            IF recordsMetrics
                            THEN RecordDetection(DetectionTotal, info.Method, info.Source, kind, FALSE)
                            ELSE DetectionTotal
                     /\ UNCHANGED DetectionErrorsTotal
    /\ detections' = detections + 1
    /\ UNCHANGED <<cluster, clock>>

DetectDeploymentMethod ==
    /\ Detect("Deployment", TRUE)
    /\ UNCHANGED nonCacheVars

DetectStatefulSetMethod ==
    /\ Detect("StatefulSet", FALSE)
    /\ UNCHANGED nonCacheVars

DetectDaemonSetMethod ==
    /\ Detect("DaemonSet", FALSE)
    /\ UNCHANGED nonCacheVars

\* DeploymentDetector.ClearCache
ClearCache ==
    /\ entries' = <<>>
    /\ UNCHANGED <<cluster, clock, clusterGets, DetectionTotal, DetectionErrorsTotal,
                   lastDetection, detections>>
    /\ UNCHANGED nonCacheVars

\* a minute passes
ClockAdvance ==
    /\ clock < MaxClock
    /\ clock' = clock + 1
    /\ UNCHANGED <<cluster, entries, clusterGets, DetectionTotal, DetectionErrorsTotal,
                   lastDetection, detections>>
    /\ UNCHANGED nonCacheVars

\* somebody deletes a workload from the cluster
ClusterDelete ==
    /\ \E kind \in WorkloadKinds :
        /\ cluster[kind] # NotFound
        /\ cluster' = [cluster EXCEPT ![kind] = NotFound]
    /\ UNCHANGED <<clock, entries, clusterGets, DetectionTotal, DetectionErrorsTotal,
                   lastDetection, detections>>
    /\ UNCHANGED nonCacheVars

\* the workloads of the cache model: GitOps-managed or without indicators
ClusterObjects(kind) ==
    {[Annotations |-> ArgoCDTrackingAnnotation :> <<"v">>, Labels |-> <<>>, Kind |-> kind],
     [Annotations |-> <<>>, Labels |-> <<>>, Kind |-> kind]}

InitCache ==
    /\ plan = NewRemediationPlan(<<>>, <<>>)
    /\ InitExecution
    /\ InitRegistries
    /\ InitLocking
    /\ InitMain
    /\ InitHealth
    /\ InitWatching
    /\ InitRemediation
    /\ InitSelector
    /\ InitClassify
    /\ InitPlanning
    /\ cluster \in {c \in [WorkloadKinds -> UNION {ClusterObjects(k) : k \in WorkloadKinds} \cup {NotFound}] :
                        \A k \in WorkloadKinds : c[k] = NotFound \/ c[k].Kind = k}
    /\ clock = 0
    /\ entries = <<>>
    /\ clusterGets = <<>>
    /\ DetectionTotal = EmptyCounter
    /\ DetectionErrorsTotal = EmptyCounter
    /\ lastDetection = NoDetection
    /\ detections = 0

NextCache ==
    \/ DetectDeploymentMethod
    \/ DetectStatefulSetMethod
    \/ DetectDaemonSetMethod
    \/ ClearCache
    \/ ClockAdvance
    \/ ClusterDelete

SpecCache == InitCache /\ [][NextCache]_vars

\* a Detect...Method call for the given kind returns in this step
Detects(kind) ==
    /\ detections' = detections + 1
    /\ lastDetection'.Kind = kind

\* the cache holds an entry for the kind that was inserted more than ttl ago
Expired(kind) ==
    /\ cacheKey(kind) \in DOMAIN entries
    /\ clock > entries[cacheKey(kind)].info.DetectedAt + ttl

\* C27: the cache TTL is honoured: when a key is read more than ttl after its
\* entry was last inserted, the read is a miss and the detection asks the
\* cluster for the workload again.
C27_TTLHonoured ==
    [][\A kind \in WorkloadKinds :
          (Detects(kind) /\ Expired(kind))
              => clusterGets' = Append(clusterGets, cacheKey(kind))]_vars

\* a workload was detected and cached, was deleted, and a detection after the
\* entry's expiry asked the cluster again and was told that it is gone
C27_Witness ==
    \E kind \in WorkloadKinds :
        /\ Expired(kind)
        /\ lastDetection = [Kind |-> kind, Info |-> NoInfo, Err |-> "not found"]
        /\ clusterGets = <<cacheKey(kind), cacheKey(kind)>>

\* the cache holds an entry for the kind that was inserted at most ttl ago
Fresh(kind) ==
    /\ cacheKey(kind) \in DOMAIN entries
    /\ clock <= entries[cacheKey(kind)].info.DetectedAt + ttl

\* the labels of the detection metric for a cache hit on the given info
CachedLabels(info, kind) == <<info.Method, info.Source, kind, TRUE>>

\* C28: re-running detection for the same workload (Deployment, StatefulSet
\* or DaemonSet) within the TTL, the workload unchanged, returns the first
\* result unchanged without asking the cluster again, and increments the
\* detection metric labelled cached=true.
C28_CachedRedetection ==
    [][\A kind \in WorkloadKinds :
          (Detects(kind) /\ Fresh(kind) /\ cluster[kind] # NotFound)
              => LET first == entries[cacheKey(kind)].info
                 IN  /\ lastDetection' = [Kind |-> kind, Info |-> first, Err |-> "nil"]
                     /\ clusterGets' = clusterGets
                     /\ Count(DetectionTotal', CachedLabels(first, kind))
                            = Count(DetectionTotal, CachedLabels(first, kind)) + 1]_vars

\* a Detect...Method call for the given kind returns in this step, the
\* workload does not exist and the API server answers the query, if asked
DetectsMissing(kind) ==
    /\ Detects(kind)
    /\ cluster[kind] = NotFound
    /\ lastDetection'.Err # "api error"

\* the call returns the NotFound error, writes nothing to the cache, and the
\* next detection after it, if for the same key, asks the cluster again
NotFoundAndNoCacheWrite(kind) ==
    /\ lastDetection' = [Kind |-> kind, Info |-> NoInfo, Err |-> "not found"]
    /\ entries' = entries

RequeriesAfterNotFound(kind) ==
    (Detects(kind) /\ lastDetection = [Kind |-> kind, Info |-> NoInfo, Err |-> "not found"])
        => clusterGets' = Append(clusterGets, cacheKey(kind))

\* C29 as stated: detection on a workload that does not exist returns a
\* NotFound error and performs no cache write; the entries are unchanged and
\* a later detection of the same key asks the cluster again.
C29_NotFoundNoCacheWrite ==
    [][\A kind \in WorkloadKinds :
          /\ DetectsMissing(kind) => NotFoundAndNoCacheWrite(kind)
          /\ RequeriesAfterNotFound(kind)]_vars

\* C29 amended: the same for a workload that does not exist and for which
\* the cache holds no unexpired entry.
C29_NotFoundUnlessCached ==
    [][\A kind \in WorkloadKinds :
          /\ (DetectsMissing(kind) /\ ~Fresh(kind)) => NotFoundAndNoCacheWrite(kind)
          /\ RequeriesAfterNotFound(kind)]_vars

\* a Deployment that does not exist was detected twice: both calls asked the
\* cluster, both recorded a not_found error and the cache is still empty
C29_Witness ==
    /\ cluster["Deployment"] = NotFound
    /\ lastDetection = [Kind |-> "Deployment", Info |-> NoInfo, Err |-> "not found"]
    /\ clusterGets = <<cacheKey("Deployment"), cacheKey("Deployment")>>
    /\ Count(DetectionErrorsTotal, <<"not_found", "Deployment">>) = 2
    /\ entries = <<>>

(* Passive steps.  The orchestrator reaches the cluster only through its   *)
(* collaborators: the detector and the health checkers read, and only the  *)
(* remediators behind strategySelector.Remediate write.                    *)

\* steps of every layer with every action type, a parseable target, a wait
\* after infrastructure steps only, all required
PassiveStepInputs ==
    {s \in [Layer : Layers, ActionType : ActionTypes, Target : {TargetNsName},
            WaitTime : WaitTimes, Required : {TRUE}] :
        s.WaitTime = IF s.Layer = LayerInfrastructure THEN 1 ELSE 0}

PassiveCheckpoints ==
    [Layer : {LayerPlatform}, AfterStep : 1..MaxSteps, Required : {TRUE}]

InitPassive ==
    /\ InitLocking
    /\ InitMain
    /\ InitHealth
    /\ InitWatching
    /\ InitRemediation
    /\ InitSelector
    /\ InitClassify
    /\ InitDetector
    /\ InitPlanning
    /\ \E inputs \in SeqsUpTo(PassiveStepInputs, MaxSteps) :
       \E checkpoints \in SeqsUpTo(PassiveCheckpoints, MaxCheckpoints) :
            plan = NewRemediationPlan(AddSteps(inputs), checkpoints)
    /\ InitExecution
    /\ InitRegistries

SpecPassive == InitPassive /\ [][Next]_vars

Passive(step) == step.Layer \in {LayerInfrastructure, LayerPlatform}

\* executeStep returns for the current step in this step of the model
Executes(step) == pc = "exec" /\ pc' # "exec" /\ step = CurrentStepOf

\* executeRollback runs for the step in this step of the model
RollsBack(step) ==
    pc = "rollback" /\ rb >= 0 /\ rb' = rb - 1 /\ step = rollbackStepAt(executedSteps, rb)

\* C30: executing or rolling back an infrastructure- or platform-layer step
\* invokes no remediator, and so writes nothing to the cluster, whatever the
\* action type of the step.
C30_PassiveMonitors ==
    [][\A k \in 1..Len(plan.Steps) :
          LET step == plan.Steps[k]
          IN  (Passive(step) /\ (Executes(step) \/ RollsBack(step)))
                  => remediateCalls' = remediateCalls]_vars

\* a platform step whose action type is an application action was executed
\* and, after the application step behind it failed, rolled back: the only
\* remediator call is the one of the application step
C30_Witness ==
    /\ Len(plan.Steps) = 2
    /\ plan.Steps[1].Layer = LayerPlatform
    /\ plan.Steps[1].ActionType = "restart_deployment"
    /\ plan.Steps[2].Layer = LayerApplication
    /\ rollbackLog = <<1>>
    /\ remediateCalls = <<2>>

(* The plan object and the gauge when ExecutePlan returns.                 *)

\* C37: when ExecutePlan has returned, the status of the plan is terminal and
\* agrees with the result: completed iff the result is "success", otherwise
\* failed or rolled_back; never pending or executing.
C37_TerminalStatusOnReturn ==
    pc = "done" =>
        /\ plan.Status \in {"completed", "failed", "rolled_back"}
        /\ (plan.Status = "completed") <=> (result.Status = "success")

\* C38: whenever the status of a plan is completed, its current_step equals
\* the number of its steps, i.e. IsComplete() is true.
C38_CompletedIsComplete ==
    plan.Status = "completed" => plan.CurrentStep = Len(plan.Steps)

\* the ExecutePlan calls in progress: the one call of the model, between its
\* entry and its return
CallsInProgress == IF pc \in {"idle", "done"} THEN 0 ELSE 1

\* C40: the active-plans gauge goes up once when ExecutePlan starts and down
\* once on every return path, so it always equals the number of ExecutePlan
\* calls in progress and is never negative.
C40_GaugeCountsCallsInProgress ==
    /\ PlansActiveGauge = CallsInProgress
    /\ PlansActiveGauge >= 0

\* ExecutePlan has returned on the cancellation path and the gauge is back at 0
C40_Witness ==
    /\ pc = "done"
    /\ result.Reason = "context cancelled"
    /\ Count(PlanExecutionTotal, "cancelled") = 1
    /\ PlansActiveGauge = 0

\* C39: in every issue DetectLayers produces, each layer that holds at least
\* one impacted resource is among the affected layers, so that the planner,
\* which iterates the affected layers only, visits every resource.
C39_ResourceLayersAffected ==
    (planPc \in {"detected", "planned"} /\ layeredIssue.DetectionMethod = "keyword") =>
        \A layer \in Layers :
            layeredIssue.ImpactedResources[layer] # <<>> =>
                \E a \in 1..Len(layeredIssue.AffectedLayers) :
                    layeredIssue.AffectedLayers[a] = layer

(* The remediators.  An error is the sequence of the words of its text,    *)
(* nil the empty sequence; a client call is <<verb, kind>>.                *)
NoError == <<>>

\* fmt.Errorf("<prefix>: %w", err)
Wrap(prefix, err) == prefix \o err

\* what a call of the typed clientset returns for the backend state w
ClientError(verb, kind, w) ==
    IF w.Failing = verb THEN <<"internal", "error">>
    ELSE IF ~w.Exists[kind] THEN <<kind, "not", "found">>
    ELSE NoError

\* one client call, its error wrapped as the caller wraps it
ClientCall(verb, kind, w, prefix) ==
    [Calls |-> <<<<verb, kind>>>>,
     Err |-> IF ClientError(verb, kind, w) = NoError THEN NoError
             ELSE Wrap(prefix, ClientError(verb, kind, w))]

\* if err != nil { return err } between two parts of a function
AndThen(first, second) ==
    IF first.Err # NoError THEN first
    ELSE [Calls |-> first.Calls \o second.Calls, Err |-> second.Err]

Returns(err) == [Calls |-> <<>>, Err |-> err]

isDeployment(issue) == issue.ResourceType \in {"deployment", "Deployment"}

\* ManualRemediator.restartDeployment: Get, set the restart annotation, Update
restartDeployment(issue, w) ==
    AndThen(ClientCall("get", "deployment", w, <<"failed", "to", "get", "deployment:">>),
            ClientCall("update", "deployment", w, <<"failed", "to", "update", "deployment:">>))

\* ManualRemediator.rollbackDeployment: Get, then restartDeployment whatever
\* the observed generation
rollbackDeployment(issue, w) ==
    AndThen(ClientCall("get", "deployment", w, <<"failed", "to", "get", "deployment:">>),
            IF w.ObservedGeneration <= 1
            THEN restartDeployment(issue, w)
            ELSE restartDeployment(issue, w))

deletePod(w) == ClientCall("delete", "pod", w, <<"failed", "to", "delete", "pod:">>)

\* ManualRemediator.remediateCrashLoop
remediateCrashLoop(issue, w) ==
    IF isDeployment(issue) THEN rollbackDeployment(issue, w) ELSE deletePod(w)

\* mutant of remediateImagePull: the pod is deleted to have it pulled again
remediateImagePullByRestart(issue, w) ==
    AndThen(ClientCall("get", "pod", w, <<"failed", "to", "get", "pod:">>),
            AndThen(deletePod(w),
                    Returns(<<"ImagePullBackOff", "requires", "manual", "intervention:",
                              "verify", "image", "exists", "and", "pull", "secrets",
                              "are", "configured">>)))
\* ManualRemediator.remediateImagePull: Get the pod, log its images, give up
remediateImagePull(issue, w) ==
    AndThen(ClientCall("get", "pod", w, <<"failed", "to", "get", "pod:">>),
            Returns(<<"ImagePullBackOff", "requires", "manual", "intervention:",
                      "verify", "image", "exists", "and", "pull", "secrets",
                      "are", "configured">>))

\* ManualRemediator.remediateOOM: Get the pod, log its limits, Delete it
remediateOOM(issue, w) ==
    AndThen(ClientCall("get", "pod", w, <<"failed", "to", "get", "pod:">>), deletePod(w))

\* ManualRemediator.remediateGeneric
remediateGeneric(issue, w) ==
    IF isDeployment(issue) THEN restartDeployment(issue, w) ELSE deletePod(w)

\* ManualRemediator.Remediate: the switch over issue.Type
ManualRemediate(issue, w) ==
    CASE issue.Type \in {"CrashLoopBackOff", "crashloopbackoff"} -> remediateCrashLoop(issue, w)
      [] issue.Type \in {"ImagePullBackOff", "imagepullbackoff"} -> remediateImagePull(issue, w)
      [] issue.Type \in {"OOMKilled", "oomkilled"} -> remediateOOM(issue, w)
      [] issue.Type = "pod_crash_loop" -> remediateCrashLoop(issue, w)
      [] OTHER -> remediateGeneric(issue, w)

\* executeWorkflow: failed iff Remediate returned an error
workflowStatusAfter(err) == IF err # NoError THEN "failed" ELSE "completed"

IssueTypes ==
    {"CrashLoopBackOff", "crashloopbackoff", "ImagePullBackOff", "imagepullbackoff",
     "OOMKilled", "oomkilled", "pod_crash_loop", "HighLatency"}

ManualIssues == [Type : IssueTypes, ResourceType : {"pod", "deployment", "Deployment"}]

\* the backend of the ManualRemediator: which objects exist, the observed
\* generation of the deployment, and the verb the API server fails, if any
ManualBackends ==
    [Exists : [{"pod", "deployment"} -> BOOLEAN], ObservedGeneration : {1, 2},
     Failing : {"none", "get", "delete", "update"}]

\* executeWorkflow around ManualRemediator.Remediate
ManualRemediatorRemediate ==
    /\ workflowStatus = "pending"
    /\ LET done == ManualRemediate(remediation.Issue, remediation.Backend)
       IN  /\ clientCalls' = done.Calls
           /\ remediationErr' = done.Err
           /\ workflowStatus' = workflowStatusAfter(done.Err)
    /\ UNCHANGED remediation
    /\ UNCHANGED nonRemVars

InitManual ==
    /\ plan = NewRemediationPlan(<<>>, <<>>)
    /\ InitExecution
    /\ InitRegistries
    /\ InitLocking
    /\ InitMain
    /\ InitHealth
    /\ InitWatching
    /\ InitSelector
    /\ InitClassify
    /\ InitDetector
    /\ InitPlanning
    /\ remediation \in [Type : {"manual"}, Issue : ManualIssues, Backend : ManualBackends]
    /\ clientCalls = <<>>
    /\ remediationErr = NoError
    /\ workflowStatus = "pending"

NextManual == ManualRemediatorRemediate

SpecManual == InitManual /\ [][NextManual]_vars

\* the calls that change the cluster
Mutations == {"create", "update", "patch", "delete"} \X {"pod", "deployment", "cr"}
Mutates(calls) == \E k \in 1..Len(calls) : calls[k] \in Mutations

MentionsManualIntervention(err) == Contains(err, <<"manual", "intervention:">>)

ImagePullReturned ==
    /\ workflowStatus # "pending"
    /\ remediation.Type = "manual"
    /\ remediation.Issue.Type \in {"ImagePullBackOff", "imagepullbackoff"}

\* C31 as stated: for an issue of type ImagePullBackOff the ManualRemediator
\* never mutates the cluster and always returns an error that mentions manual
\* intervention, so the workflow ends failed.
C31_ImagePullManualIntervention ==
    ImagePullReturned =>
        /\ ~Mutates(clientCalls)
        /\ MentionsManualIntervention(remediationErr)
        /\ workflowStatus = "failed"

\* C31 amended: it never mutates the cluster and always returns an error, so
\* the workflow ends failed; the error mentions manual intervention whenever
\* the pod could be read, and is the error of reading the pod otherwise.
C31_ImagePullNeverRemediates ==
    ImagePullReturned =>
        /\ ~Mutates(clientCalls)
        /\ remediationErr # NoError
        /\ workflowStatus = "failed"
        /\ IF ClientError("get", "pod", remediation.Backend) = NoError
           THEN MentionsManualIntervention(remediationErr)
           ELSE remediationErr = Wrap(<<"failed", "to", "get", "pod:">>,
                                       ClientError("get", "pod", remediation.Backend))

\* the pod exists and was read: one Get, no other call, and the workflow has
\* failed with the manual-intervention message
C31_Witness ==
    /\ ImagePullReturned
    /\ remediation.Backend.Exists["pod"]
    /\ clientCalls = <<<<"get", "pod">>>>
    /\ MentionsManualIntervention(remediationErr)
    /\ workflowStatus = "failed"

(* HelmRemediator.  A helm command is <<verb, release, namespace>>; the    *)
(* backend says which commands fail and what helm status reports.          *)
HelmExitError == <<"exit", "status", "1">>

\* deploymentInfo.GetDetail(key): "" when the detail is missing
GetDetail(info, key) == IF key \in DOMAIN info.Details THEN info.Details[key] ELSE ""

\* exec of one helm command: the call and the error of the command
HelmCommand(verb, release, namespace, w, prefix) ==
    [Calls |-> <<<<verb, release, namespace>>>>,
     Err |-> IF verb \in w.Failing THEN Wrap(prefix, HelmExitError) ELSE NoError]

getReleaseStatus(release, namespace, w) ==
    HelmCommand("status", release, namespace, w, <<"helm", "status", "command", "failed:">>)

rollbackRelease(release, namespace, w) ==
    HelmCommand("rollback", release, namespace, w, <<"helm", "rollback", "failed:">>)

upgradeRelease(release, namespace, w) ==
    HelmCommand("upgrade", release, namespace, w, <<"helm", "upgrade", "failed:">>)

\* mutant of upgradeFailed: a rollback that succeeded counts as a remediation
upgradeFailedUnlessRolledBack(err, rollbackErr) ==
    IF rollbackErr # NoError
    THEN <<"helm", "upgrade", "failed:">> \o err
            \o <<"and", "rollback", "also", "failed:">> \o rollbackErr
    ELSE NoError
\* the error HelmRemediator.Remediate returns after a failed upgrade and the
\* rollback attempted for it
upgradeFailed(err, rollbackErr) ==
    IF rollbackErr # NoError
    THEN <<"helm", "upgrade", "failed:">> \o err
            \o <<"and", "rollback", "also", "failed:">> \o rollbackErr
    ELSE <<"helm", "upgrade", "failed", "(rolled", "back):">> \o err

\* HelmRemediator.Remediate
HelmRemediate(info, w) ==
    LET releaseName == GetDetail(info, "release_name")
        releaseNamespace == IF GetDetail(info, "release_namespace") = ""
                            THEN info.Namespace
                            ELSE GetDetail(info, "release_namespace")
        status == getReleaseStatus(releaseName, releaseNamespace, w)
        rollback == rollbackRelease(releaseName, releaseNamespace, w)
        upgrade == upgradeRelease(releaseName, releaseNamespace, w)
    IN  IF releaseName = ""
        THEN Returns(<<"helm", "release", "name", "not", "found", "in", "deployment", "info">>)
        ELSE IF status.Err # NoError
        THEN [status EXCEPT !.Err = Wrap(<<"failed", "to", "get", "release", "status:">>, @)]
        ELSE IF w.Status \in {"failed", "superseded", "pending-upgrade"}
        THEN [Calls |-> status.Calls \o rollback.Calls,
              Err |-> IF rollback.Err # NoError
                      THEN Wrap(<<"helm", "rollback", "failed:">>, rollback.Err)
                      ELSE NoError]
        ELSE IF upgrade.Err # NoError
        THEN [Calls |-> status.Calls \o upgrade.Calls \o rollback.Calls,
              Err |-> upgradeFailed(upgrade.Err, rollback.Err)]
        ELSE [Calls |-> status.Calls \o upgrade.Calls, Err |-> NoError]

\* the deployment infos handed to the HelmRemediator
HelmInfos ==
    {[Namespace |-> "default", Details |-> details] :
        details \in {<<>>,
                     "release_name" :> "web",
                     ("release_name" :> "web") @@ ("release_namespace" :> "charts"),
                     ("release_name" :> "") @@ ("release_namespace" :> "charts")}}

HelmBackends ==
    [Status : {"deployed", "failed", "superseded", "pending-upgrade"},
     Failing : SUBSET {"status", "upgrade", "rollback"}]

\* executeWorkflow around HelmRemediator.Remediate
HelmRemediatorRemediate ==
    /\ workflowStatus = "pending"
    /\ LET done == HelmRemediate(remediation.Info, remediation.Backend)
       IN  /\ clientCalls' = done.Calls
           /\ remediationErr' = done.Err
           /\ workflowStatus' = workflowStatusAfter(done.Err)
    /\ UNCHANGED remediation
    /\ UNCHANGED nonRemVars

InitHelm ==
    /\ plan = NewRemediationPlan(<<>>, <<>>)
    /\ InitExecution
    /\ InitRegistries
    /\ InitLocking
    /\ InitMain
    /\ InitHealth
    /\ InitWatching
    /\ InitSelector
    /\ InitClassify
    /\ InitDetector
    /\ InitPlanning
    /\ remediation \in [Type : {"helm"}, Info : HelmInfos, Backend : HelmBackends]
    /\ clientCalls = <<>>
    /\ remediationErr = NoError
    /\ workflowStatus = "pending"

NextHelm == HelmRemediatorRemediate

SpecHelm == InitHelm /\ [][NextHelm]_vars

\* the positions of the calls with the given verb
CallsOf(verb) == {k \in 1..Len(clientCalls) : clientCalls[k][1] = verb}

\* Remediate has returned and its helm upgrade failed
UpgradeFailedAndReturned ==
    /\ workflowStatus # "pending"
    /\ remediation.Type = "helm"
    /\ CallsOf("upgrade") # {}
    /\ "upgrade" \in remediation.Backend.Failing

\* C34: when a Helm upgrade fails, the remediator attempts exactly one
\* rollback of the same release and then returns an error in every case: one
\* naming both failures if the rollback fails too, the upgrade error if the
\* rollback succeeds; it never reports success after a failed upgrade.
C34_RollbackAfterFailedUpgrade ==
    UpgradeFailedAndReturned =>
        /\ Cardinality(CallsOf("upgrade")) = 1
        /\ Cardinality(CallsOf("rollback")) = 1
        /\ \A u \in CallsOf("upgrade"), r \in CallsOf("rollback") :
                /\ u < r
                /\ Tail(clientCalls[r]) = Tail(clientCalls[u])
        /\ remediationErr # NoError
        /\ workflowStatus = "failed"
        /\ Contains(remediationErr, <<"helm", "upgrade", "failed:">> \o HelmExitError)
        /\ ("rollback" \in remediation.Backend.Failing)
                <=> Contains(remediationErr, <<"rollback", "also", "failed:">>)
        /\ ("rollback" \notin remediation.Backend.Failing)
                => remediationErr = <<"helm", "upgrade", "failed", "(rolled", "back):">>
                                        \o <<"helm", "upgrade", "failed:">> \o HelmExitError

\* upgrade and rollback of the release web in the namespace charts both failed
C34_Witness ==
    /\ UpgradeFailedAndReturned
    /\ clientCalls = <<<<"status", "web", "charts">>, <<"upgrade", "web", "charts">>,
                       <<"rollback", "web", "charts">>>>
    /\ Contains(remediationErr, <<"rollback", "also", "failed:">>)
    /\ workflowStatus = "failed"

\* ------------------------------------------------------------------------
\* OperatorRemediator (operator_remediator.go): find the custom resource that
\* owns the workload and annotate it so that its operator reconciles.
\* A call of the dynamic client is <<verb, resource, name>>.

builtInKinds ==
    {"Pod", "Deployment", "ReplicaSet", "StatefulSet", "DaemonSet", "Service",
     "ConfigMap", "Secret", "PersistentVolumeClaim", "Job", "CronJob", "Ingress",
     "NetworkPolicy"}

isBuiltInKubernetesResource(kind) == kind \in builtInKinds

\* lowercase the kind and append "s"
inferResourceName(kind) ==
    CASE kind = "Database" -> "databases"
      [] kind = "Kafka" -> "kafkas"
      [] kind = "ReplicaSet" -> "replicasets"
      [] OTHER -> ""

NoCR == [Kind |-> "", Name |-> "", Resource |-> ""]

RECURSIVE extractCRFrom(_, _)
extractCRFrom(ownerRefs, n) ==
    IF n > Len(ownerRefs) THEN NoCR
    ELSE IF isBuiltInKubernetesResource(ownerRefs[n].Kind) THEN extractCRFrom(ownerRefs, n + 1)
    ELSE [Kind |-> ownerRefs[n].Kind, Name |-> ownerRefs[n].Name,
          Resource |-> inferResourceName(ownerRefs[n].Kind)]

extractCRFromOwnerRefs(ownerRefs) == extractCRFrom(ownerRefs, 1)

LookupDone(calls, cr) == [Calls |-> calls, Err |-> NoError, CR |-> cr]

LookupFailed(calls, err) == [Calls |-> calls, Err |-> err, CR |-> NoCR]

findOwningCR(resourceType, w) ==
    IF resourceType = "Deployment" THEN
        IF ClientError("get", "deployment", w) # NoError
        THEN LookupFailed(<<<<"get", "deployment">>>>,
                      Wrap(<<"failed", "to", "get", "deployment:">>,
                           ClientError("get", "deployment", w)))
        ELSE IF extractCRFromOwnerRefs(w.DeploymentOwners) # NoCR
        THEN LookupDone(<<<<"get", "deployment">>>>, extractCRFromOwnerRefs(w.DeploymentOwners))
        ELSE IF w.Failing = "list"
        THEN LookupDone(<<<<"get", "deployment">>, <<"list", "pod">>>>, NoCR)
        ELSE IF w.Exists["pod"]
        THEN LookupDone(<<<<"get", "deployment">>, <<"list", "pod">>>>,
                   extractCRFromOwnerRefs(w.PodOwners))
        ELSE LookupDone(<<<<"get", "deployment">>, <<"list", "pod">>>>, NoCR)
    ELSE IF resourceType = "Pod" THEN
        IF ClientError("get", "pod", w) # NoError
        THEN LookupFailed(<<<<"get", "pod">>>>,
                      Wrap(<<"failed", "to", "get", "pod:">>, ClientError("get", "pod", w)))
        ELSE LookupDone(<<<<"get", "pod">>>>, extractCRFromOwnerRefs(w.PodOwners))
    ELSE LookupFailed(<<>>, <<"unsupported", "resource", "type", "for", "CR", "lookup:">>
                        \o <<resourceType>>)

\* what a call of the dynamic client returns for the backend state w
DynamicError(verb, cr, w) ==
    IF w.DynamicFailing = verb THEN <<"internal", "error">>
    ELSE IF cr.Name \notin w.CRs THEN <<cr.Resource, "not", "owner">>
    ELSE NoError

DynamicCall(verb, cr, w, prefix) ==
    [Calls |-> <<<<verb, cr.Resource, cr.Name>>>>,
     Err |-> IF DynamicError(verb, cr, w) = NoError THEN NoError
             ELSE Wrap(prefix, DynamicError(verb, cr, w))]

triggerReconciliationWithoutGet(cr, w) ==
    DynamicCall("patch", cr, w, <<"failed", "to", "patch", "CR:">>)

triggerReconciliation(cr, w) ==
    AndThen(DynamicCall("get", cr, w, <<"failed", "to", "get", "CR:">>),
            DynamicCall("patch", cr, w, <<"failed", "to", "patch", "CR:">>))

OperatorRemediate(issue, w) ==
    LET owner == findOwningCR(issue.ResourceType, w)
        triggered == triggerReconciliation(owner.CR, w)
    IN  IF owner.Err # NoError
        THEN [Calls |-> owner.Calls,
              Err |-> Wrap(<<"failed", "to", "find", "owning", "CR:">>, owner.Err)]
        ELSE IF owner.CR = NoCR
        THEN [Calls |-> owner.Calls, Err |-> <<"no", "owning", "CR", "owner", "for", "ns/name">>]
        ELSE [Calls |-> owner.Calls \o triggered.Calls,
              Err |-> IF triggered.Err = NoError THEN NoError
                      ELSE Wrap(<<"failed", "to", "trigger", "reconciliation:">>,
                                triggered.Err)]

OperatorIssues == [ResourceType : {"Deployment", "Pod", "StatefulSet"}]

OwnerReference(kind, name) == [Kind |-> kind, Name |-> name]

OwnerReferences ==
    {<<>>,
     <<OwnerReference("ReplicaSet", "web-1")>>,
     <<OwnerReference("Database", "db")>>,
     <<OwnerReference("ReplicaSet", "web-1"), OwnerReference("Kafka", "bus")>>,
     <<OwnerReference("Kafka", "bus"), OwnerReference("Database", "db")>>}

OperatorBackends ==
    [Exists : [{"pod", "deployment"} -> BOOLEAN], Failing : {"none", "get", "list"},
     DeploymentOwners : OwnerReferences, PodOwners : OwnerReferences,
     CRs : SUBSET {"db", "bus"}, DynamicFailing : {"none", "get", "patch"}]

\* executeWorkflow around OperatorRemediator.Remediate
OperatorRemediatorRemediate ==
    /\ workflowStatus = "pending"
    /\ LET done == OperatorRemediate(remediation.Issue, remediation.Backend)
       IN  /\ clientCalls' = done.Calls
           /\ remediationErr' = done.Err
           /\ workflowStatus' = workflowStatusAfter(done.Err)
    /\ UNCHANGED remediation
    /\ UNCHANGED nonRemVars

InitOperator ==
    /\ plan = NewRemediationPlan(<<>>, <<>>)
    /\ InitExecution
    /\ InitRegistries
    /\ InitLocking
    /\ InitMain
    /\ InitHealth
    /\ InitWatching
    /\ InitSelector
    /\ InitClassify
    /\ InitDetector
    /\ InitPlanning
    /\ remediation \in [Type : {"operator"}, Issue : OperatorIssues, Backend : OperatorBackends]
    /\ clientCalls = <<>>
    /\ remediationErr = NoError
    /\ workflowStatus = "pending"

NextOperator == OperatorRemediatorRemediate

SpecOperator == InitOperator /\ [][NextOperator]_vars

OperatorReturned == remediation.Type = "operator" /\ workflowStatus # "pending"

Patches(n) == clientCalls[n][1] = "patch"

\* the call before the n-th is a Get of the same custom resource, and it succeeded
GetSucceededJustBefore(n) ==
    /\ n > 1
    /\ clientCalls[n - 1] = <<"get", clientCalls[n][2], clientCalls[n][3]>>
    /\ remediation.Backend.DynamicFailing # "get"
    /\ clientCalls[n][3] \in remediation.Backend.CRs

NoOwningCRFound ==
    findOwningCR(remediation.Issue.ResourceType, remediation.Backend).CR = NoCR

GetOfOwningCRFails ==
    LET cr == findOwningCR(remediation.Issue.ResourceType, remediation.Backend).CR
    IN  \/ remediation.Backend.DynamicFailing = "get"
        \/ cr.Name \notin remediation.Backend.CRs

\* C35: the operator remediator patches a custom resource only directly after a
\* successful Get of that same resource; when no owning custom resource is owner
\* or the Get fails, Remediate returns an error and has issued no patch.
C35_PatchOnlyAfterGet ==
    OperatorReturned =>
        /\ \A n \in 1..Len(clientCalls) : Patches(n) => GetSucceededJustBefore(n)
        /\ (NoOwningCRFound \/ GetOfOwningCRFails) =>
               /\ remediationErr # NoError
               /\ \A n \in 1..Len(clientCalls) : ~Patches(n)

C35_Witness ==
    /\ OperatorReturned
    /\ remediation.Issue.ResourceType = "Deployment"
    /\ clientCalls = <<<<"get", "deployment">>, <<"list", "pod">>,
                       <<"get", "kafkas", "bus">>, <<"patch", "kafkas", "bus">>>>
    /\ workflowStatus = "completed"

\* ------------------------------------------------------------------------
\* The polling watchers: ArgoCDClient.WaitForSync (argocd_client.go) and
\* MCOClient.WaitForPoolStable (mco_client.go). Time is in seconds since the
\* call; a poll of the backend and a return take no time, a wait takes time.

MaxTimeout == 12

syncPollInterval == 5

poolPollInterval == 10

MaxTime == MaxTimeout + poolPollInterval + 2

NotCancelled == -1

pollInterval(kind) == IF kind = "sync" THEN syncPollInterval ELSE poolPollInterval

\* what a poll can answer: GetApplication / IsPoolStable
BackendAnswers(kind) ==
    IF kind = "sync" THEN {"error", "OutOfSync", "Synced", "Degraded"}
    ELSE {"error", "updating", "stable"}

TargetState(kind) == IF kind = "sync" THEN "Synced" ELSE "stable"

AfterNever(at, deadline) == FALSE

\* time.Now().After(deadline)
After(at, deadline) == at > deadline

\* time.Now().Before(deadline)
Before(at, deadline) == at < deadline

cancelled == watcher.CancelledAt # NotCancelled

Return(err) ==
    watcher' = [watcher EXCEPT !.Pc = "returned", !.Result = err, !.ReturnedAt = wallTime]

\* case <-ticker.C of WaitForSync
WaitForSyncTick ==
    /\ watcher.Kind = "sync"
    /\ watcher.Pc = "select"
    /\ wallTime = watcher.Wake
    /\ IF After(wallTime, watcher.Deadline) THEN Return("timeout")
       ELSE IF watcher.Backend = "Synced"
       THEN watcher' = [watcher EXCEPT !.Pc = "returned", !.Result = "nil",
                                       !.ReturnedAt = wallTime, !.Polled = watcher.Backend]
       ELSE IF watcher.Backend = "Degraded"
       THEN watcher' = [watcher EXCEPT !.Pc = "returned", !.Result = "degraded",
                                       !.ReturnedAt = wallTime, !.Polled = watcher.Backend]
       ELSE watcher' = [watcher EXCEPT !.Wake = wallTime + syncPollInterval,
                                       !.Polled = watcher.Backend]
    /\ UNCHANGED wallTime
    /\ UNCHANGED nonWatchVars

\* case <-ctx.Done() of WaitForSync
WaitForSyncDone ==
    /\ watcher.Kind = "sync"
    /\ watcher.Pc = "select"
    /\ cancelled
    /\ Return("ctx")
    /\ UNCHANGED wallTime
    /\ UNCHANGED nonWatchVars

\* the loop condition and the poll of WaitForPoolStable
WaitForPoolStablePoll ==
    /\ watcher.Kind = "pool"
    /\ watcher.Pc = "loop"
    /\ IF ~Before(wallTime, watcher.Deadline) THEN Return("timeout")
       ELSE IF watcher.Backend = "stable"
       THEN watcher' = [watcher EXCEPT !.Pc = "returned", !.Result = "nil",
                                       !.ReturnedAt = wallTime, !.Polled = watcher.Backend]
       ELSE watcher' = [watcher EXCEPT !.Pc = "select", !.Wake = wallTime + poolPollInterval,
                                       !.Polled = watcher.Backend]
    /\ UNCHANGED wallTime
    /\ UNCHANGED nonWatchVars

\* case <-ctx.Done() of WaitForPoolStable
WaitForPoolStableDone ==
    /\ watcher.Kind = "pool"
    /\ watcher.Pc = "select"
    /\ cancelled
    /\ Return("ctx")
    /\ UNCHANGED wallTime
    /\ UNCHANGED nonWatchVars

\* case <-time.After(10 * time.Second) of WaitForPoolStable
WaitForPoolStableAfter ==
    /\ watcher.Kind = "pool"
    /\ watcher.Pc = "select"
    /\ wallTime = watcher.Wake
    /\ watcher' = [watcher EXCEPT !.Pc = "loop"]
    /\ UNCHANGED wallTime
    /\ UNCHANGED nonWatchVars

\* the caller's context is cancelled
CancelContext ==
    /\ watcher.Pc # "returned"
    /\ ~cancelled
    /\ watcher' = [watcher EXCEPT !.CancelledAt = wallTime]
    /\ UNCHANGED wallTime
    /\ UNCHANGED nonWatchVars

\* the application or the pool changes
BackendChanges ==
    /\ watcher.Pc # "returned"
    /\ \E answer \in BackendAnswers(watcher.Kind) \ {watcher.Backend} :
           watcher' = [watcher EXCEPT !.Backend = answer]
    /\ UNCHANGED wallTime
    /\ UNCHANGED nonWatchVars

\* a case of the select is ready, or the goroutine is not waiting
Ready ==
    /\ watcher.Pc # "returned"
    /\ \/ watcher.Pc = "loop"
       \/ cancelled
       \/ wallTime = watcher.Wake

TimePasses ==
    /\ wallTime < MaxTime
    /\ ~Ready
    /\ wallTime' = wallTime + 1
    /\ UNCHANGED watcher
    /\ UNCHANGED nonWatchVars

WatcherStep ==
    \/ WaitForSyncTick
    \/ WaitForSyncDone
    \/ WaitForPoolStablePoll
    \/ WaitForPoolStableDone
    \/ WaitForPoolStableAfter

Watchers ==
    [Kind : {"sync"}, Timeout : 0..MaxTimeout, Backend : BackendAnswers("sync")]
    \cup [Kind : {"pool"}, Timeout : 0..MaxTimeout, Backend : BackendAnswers("pool")]

InitWatchers ==
    /\ plan = NewRemediationPlan(<<>>, <<>>)
    /\ InitExecution
    /\ InitRegistries
    /\ InitLocking
    /\ InitMain
    /\ InitHealth
    /\ InitSelector
    /\ InitClassify
    /\ InitDetector
    /\ InitPlanning
    /\ InitRemediation
    /\ wallTime = 0
    /\ \E call \in Watchers :
           watcher = [Kind |-> call.Kind, Deadline |-> call.Timeout, Backend |-> call.Backend,
                      Pc |-> IF call.Kind = "sync" THEN "select" ELSE "loop",
                      Wake |-> IF call.Kind = "sync" THEN syncPollInterval ELSE 0,
                      Polled |-> "", CancelledAt |-> NotCancelled,
                      Result |-> "", ReturnedAt |-> 0]

NextWatchers ==
    \/ WaitForSyncTick
    \/ WaitForSyncDone
    \/ WaitForPoolStablePoll
    \/ WaitForPoolStableDone
    \/ WaitForPoolStableAfter
    \/ CancelContext
    \/ BackendChanges
    \/ TimePasses

\* the goroutine runs when it can, and time passes
SpecWatchers ==
    InitWatchers /\ [][NextWatchers]_vars /\ WF_vars(WatcherStep) /\ WF_vars(TimePasses)

Watching == watcher.Kind \in {"sync", "pool"}

\* the latest time the watcher may still be waiting at
LatestReturn ==
    IF cancelled /\ watcher.CancelledAt < watcher.Deadline
    THEN watcher.CancelledAt + pollInterval(watcher.Kind)
    ELSE watcher.Deadline + pollInterval(watcher.Kind)

ObservesDeadline ==
    Watching =>
        /\ watcher.Pc # "returned" => wallTime <= LatestReturn
        /\ watcher.Pc = "returned" =>
               /\ watcher.ReturnedAt <= LatestReturn
               /\ watcher.Result = "nil" =>
                      /\ watcher.Polled = TargetState(watcher.Kind)
                      /\ watcher.Backend = watcher.Polled

applicationStepMetadata(resource) ==
    CASE resource.Kind = KindPod ->
            [key \in {"pod", "namespace"} |->
                IF key = "pod" THEN resource.Name ELSE resource.Namespace]
      [] resource.Kind = KindDeployment ->
            [key \in {"deployment", "namespace"} |->
                IF key = "deployment" THEN resource.Name ELSE resource.Namespace]
      [] resource.Kind = KindStatefulSet ->
            [key \in {"statefulset", "namespace"} |->
                IF key = "statefulset" THEN resource.Name ELSE resource.Namespace]

\* step.Metadata[key]: the empty string for a missing key
MetadataValue(metadata, key) == IF key \in DOMAIN metadata THEN metadata[key] ELSE <<>>

\* "Determine resource kind from metadata"
resourceKindOf(metadata) ==
    IF MetadataValue(metadata, "deployment") # <<>> THEN MetadataValue(metadata, "deployment")
    ELSE IF MetadataValue(metadata, "statefulset") # <<>>
    THEN MetadataValue(metadata, "statefulset")
    ELSE IF MetadataValue(metadata, "pod") # <<>> THEN MetadataValue(metadata, "pod")
    ELSE KindDeployment

\* Detector.DetectByKind: the detection method the kind is routed to
DetectByKind(kind) ==
    CASE kind = KindStatefulSet -> "DetectStatefulSetMethod"
      [] kind = KindDaemonSet -> "DetectDaemonSetMethod"
      [] OTHER -> "DetectDeploymentMethod"

DetectByKindCall(namespace, name, kind) ==
    [Call |-> "DetectByKind", Namespace |-> namespace, Name |-> name, Kind |-> kind,
     Routed |-> DetectByKind(kind)]

RemediateCall(info, issue) ==
    [Call |-> "Remediate", Info |-> info, Issue |-> issue]

\* executeApplicationStep: the calls it makes and the error it returns
applicationStepCalls(step, metadata, w) ==
    IF ~parseTarget(step.Target)
    THEN [Calls |-> <<>>, Err |-> <<"invalid", "target", "format">>]
    ELSE LET namespace == splitTarget(step.Target)[1]
             resourceName == splitTarget(step.Target)[2]
             resourceKind == resourceKindOf(metadata)
             issue == [Namespace |-> namespace, ResourceName |-> resourceName,
                       ResourceType |-> resourceKind]
             info ==
                 IF w.DetectFails
                 THEN [Namespace |-> namespace, ResourceName |-> resourceName,
                       ResourceKind |-> resourceKind, Method |-> "unknown",
                       Confidence |-> ConfidenceSubstitute]
                 ELSE [Namespace |-> namespace, ResourceName |-> resourceName,
                       ResourceKind |-> resourceKind, Method |-> w.Method,
                       Confidence |-> IF w.Method = "helm" THEN ConfidenceHelm
                                      ELSE ConfidenceManual]
         IN  [Calls |-> <<DetectByKindCall(namespace, resourceName, resourceKind),
                          RemediateCall(info, issue)>>,
              Err |-> IF w.RemediateFails
                      THEN <<"application", "remediation", "failed">>
                      ELSE NoError]

ApplicationKinds == {KindPod, KindDeployment, KindStatefulSet}

\* a workload called "web", and one whose name is the name of its kind
ApplicationResources ==
    [Kind : ApplicationKinds, Name : {<<"w", "e", "b">>, KindStatefulSet},
     Namespace : {<<"n">>, <<>>}]

DetectorBackends ==
    [DetectFails : BOOLEAN, Method : {"helm", "manual"}, RemediateFails : BOOLEAN]

\* executeStep on the step generateApplicationSteps made for the resource
ExecuteApplicationStep ==
    /\ workflowStatus = "pending"
    /\ LET step == applicationStepsFor(remediation.Resource, 0)[1]
           done == applicationStepCalls(step, applicationStepMetadata(remediation.Resource),
                                        remediation.Backend)
       IN  /\ clientCalls' = done.Calls
           /\ remediationErr' = done.Err
           /\ workflowStatus' = workflowStatusAfter(done.Err)
    /\ UNCHANGED remediation
    /\ UNCHANGED nonRemVars

InitApplicationStep ==
    /\ plan = NewRemediationPlan(<<>>, <<>>)
    /\ InitExecution
    /\ InitRegistries
    /\ InitLocking
    /\ InitMain
    /\ InitHealth
    /\ InitSelector
    /\ InitClassify
    /\ InitDetector
    /\ InitPlanning
    /\ InitWatching
    /\ remediation \in [Type : {"application"}, Resource : ApplicationResources,
                        Backend : DetectorBackends]
    /\ clientCalls = <<>>
    /\ remediationErr = NoError
    /\ workflowStatus = "pending"

NextApplicationStep == ExecuteApplicationStep

SpecApplicationStep == InitApplicationStep /\ [][NextApplicationStep]_vars

ApplicationStepReturned ==
    /\ remediation.Type = "application"
    /\ workflowStatus # "pending"
    /\ remediation.Resource.Namespace # <<>>

CallsNamed(name) == {n \in 1..Len(clientCalls) : clientCalls[n].Call = name}

\* C33: for the application step of a resource of kind K with target ns/name the
\* orchestrator calls DetectByKind with ns, name and K, substitutes an unknown
\* deployment info of confidence 0.5 only when detection fails, and calls
\* Remediate exactly once.
C33_DetectsByKindOfResource ==
    ApplicationStepReturned =>
        /\ Len(clientCalls) = 2
        /\ clientCalls[1].Call = "DetectByKind"
        /\ clientCalls[1].Namespace = remediation.Resource.Namespace
        /\ clientCalls[1].Name = remediation.Resource.Name
        /\ clientCalls[1].Kind = remediation.Resource.Kind
        /\ Cardinality(CallsNamed("Remediate")) = 1
        /\ clientCalls[2].Info.Method = "unknown" => remediation.Backend.DetectFails

\* ------------------------------------------------------------------------
\* HealthResponse (part_002): the overall status as dependencies and the RBAC
\* status are reported.

MaxHealthCalls == 4

HealthStatusHealthy == "healthy"
HealthStatusDegraded == "degraded"
HealthStatusUnhealthy == "unhealthy"

ComponentStatusOK == "ok"
ComponentStatusDegraded == "degraded"
ComponentStatusDown == "down"

NoRBAC == [CriticalOK |-> FALSE, PermissionsFailed |-> 0, Set |-> FALSE]

NewHealthResponse ==
    [Status |-> HealthStatusHealthy, Dependencies |-> <<>>, RBAC |-> NoRBAC]

\* h.Dependencies[name] = *dep
WithDependency(dependencies, name, dep) ==
    [k \in DOMAIN dependencies \cup {name} |-> IF k = name THEN dep ELSE dependencies[k]]

AddDependencyOverwriting(h, name, dep) ==
    [h EXCEPT !.Dependencies = WithDependency(h.Dependencies, name, dep),
              !.Status = IF dep = ComponentStatusDown
                         THEN IF name = "kubernetes" THEN HealthStatusUnhealthy
                              ELSE HealthStatusDegraded
                         ELSE IF dep = ComponentStatusDegraded THEN HealthStatusDegraded
                         ELSE h.Status]

AddDependency(h, name, dep) ==
    [h EXCEPT !.Dependencies = WithDependency(h.Dependencies, name, dep),
              !.Status = IF dep = ComponentStatusDown
                         THEN IF name = "kubernetes" THEN HealthStatusUnhealthy
                              ELSE IF h.Status = HealthStatusHealthy THEN HealthStatusDegraded
                              ELSE h.Status
                         ELSE IF dep = ComponentStatusDegraded /\ h.Status = HealthStatusHealthy
                         THEN HealthStatusDegraded
                         ELSE h.Status]

SetRBACStatus(h, rbac) ==
    [h EXCEPT !.RBAC = [CriticalOK |-> rbac.CriticalOK,
                        PermissionsFailed |-> rbac.PermissionsFailed, Set |-> TRUE],
              !.Status = IF ~rbac.CriticalOK THEN HealthStatusUnhealthy
                         ELSE IF rbac.PermissionsFailed > 0 /\ h.Status = HealthStatusHealthy
                         THEN HealthStatusDegraded
                         ELSE h.Status]

DependencyNames == {"kubernetes", "ml_service"}

ComponentStatuses == {ComponentStatusOK, ComponentStatusDegraded, ComponentStatusDown}

RBACStatuses == [CriticalOK : BOOLEAN, PermissionsFailed : 0..1]

HealthAddDependency ==
    /\ health.Status # "none"
    /\ Len(reported) < MaxHealthCalls
    /\ \E name \in DependencyNames, dep \in ComponentStatuses :
           /\ health' = AddDependency(health, name, dep)
           /\ reported' = Append(reported, [Call |-> "AddDependency", Name |-> name,
                                            Status |-> dep])
    /\ UNCHANGED nonHealthVars

HealthSetRBACStatus ==
    /\ health.Status # "none"
    /\ Len(reported) < MaxHealthCalls
    /\ \E rbac \in RBACStatuses :
           /\ health' = SetRBACStatus(health, rbac)
           /\ reported' = Append(reported, [Call |-> "SetRBACStatus", RBAC |-> rbac])
    /\ UNCHANGED nonHealthVars

InitHealthResponse ==
    /\ plan = NewRemediationPlan(<<>>, <<>>)
    /\ InitExecution
    /\ InitRegistries
    /\ InitLocking
    /\ InitMain
    /\ InitSelector
    /\ InitClassify
    /\ InitDetector
    /\ InitPlanning
    /\ InitWatching
    /\ InitRemediation
    /\ health = NewHealthResponse
    /\ reported = <<>>

NextHealth ==
    \/ HealthAddDependency
    \/ HealthSetRBACStatus

SpecHealth == InitHealthResponse /\ [][NextHealth]_vars

Severity(status) ==
    CASE status = HealthStatusHealthy -> 0
      [] status = HealthStatusDegraded -> 1
      [] status = HealthStatusUnhealthy -> 2

Reports == {reported[n] : n \in 1..Len(reported)}

DependencyReports == {r \in Reports : r.Call = "AddDependency"}

RBACReports == {r \in Reports : r.Call = "SetRBACStatus"}

\* the worst of what was reported, whatever the order of the reports
WorstReported ==
    IF \/ \E r \in DependencyReports : r.Name = "kubernetes" /\ r.Status = ComponentStatusDown
       \/ \E r \in RBACReports : ~r.RBAC.CriticalOK
    THEN HealthStatusUnhealthy
    ELSE IF \/ \E r \in DependencyReports :
                  r.Status \in {ComponentStatusDown, ComponentStatusDegraded}
            \/ \E r \in RBACReports : r.RBAC.PermissionsFailed > 0
    THEN HealthStatusDegraded
    ELSE HealthStatusHealthy

StatusIsWorstReported == health.Status # "none" => health.Status = WorstReported

NeverImproves ==
    health.Status # "none" => Severity(health'.Status) >= Severity(health.Status)

\* C36: after any sequence of AddDependency and SetRBACStatus calls the overall
\* status is the worst contribution reported so far (unhealthy for kubernetes down
\* or critical permissions missing, else degraded for a dependency down or degraded
\* or a failed permission, else healthy), whatever the order of the calls, and no
\* call improves the status.
C36_StatusIsWorstSoFar == []StatusIsWorstReported /\ [][NeverImproves]_vars

C36_Witness ==
    /\ health.Status = HealthStatusUnhealthy
    /\ Len(reported) >= 3
    /\ reported[1].Call = "SetRBACStatus"
    /\ ~reported[1].RBAC.CriticalOK
    /\ reported[Len(reported)].Call = "AddDependency"
    /\ reported[Len(reported)].Status = ComponentStatusDegraded
====
